---- MODULE Spec2Model ----
(***************************************************************************)
(* A model of go-epub: the Epub builder (epub.go), the serialization in    *)
(* WriteTo (write.go), the package document (pkg.go) and the two           *)
(* navigation documents (toc.go).                                          *)
(*                                                                         *)
(* Strings are sequences of one-character strings, so that filepath.Base,  *)
(* filepath.Ext, fs.ValidPath, strings.ToLower, fmt.Sprintf("%04d") and    *)
(* fixXMLId are computed character by character as the Go code does.       *)
(***************************************************************************)
EXTENDS Integers, Sequences, FiniteSets, TLC

VARIABLES
    css,       \* Epub.css     : filename -> source
    fonts,     \* Epub.fonts   : filename -> source
    images,    \* Epub.images  : filename -> source
    videos,    \* Epub.videos  : filename -> source
    sections,  \* Epub.sections: sequence of epubSection
    cover,     \* Epub.cover   : epubCover
    manifest,  \* Epub.pkg.xml.ManifestItems
    spine,     \* Epub.pkg.xml.Spine.Items
    nav,       \* Epub.toc.navXML.Links
    ncx,       \* Epub.toc.ncxXML.NavMap
    archive,   \* zip entries of the last WriteTo that reached writeEpub
    call,      \* the last public call: operation, arguments, result
    prevCover, \* history: Epub.cover as it was before the last SetCover
    nWrites,   \* number of WriteTo calls made
    nCovers,   \* number of SetCover calls made
    pkgTitle,  \* Epub.title, which SetTitle hands to e.pkg and e.toc
    env,       \* the world outside: local files, the HTTP server
    io,        \* what the last call did to the world: sources tried, bytes
    sched,     \* the goroutines that call the Epub, and its mutex
    meta       \* Epub.pkg.xml.Metadata.Meta

vars == <<css, fonts, images, videos, sections, cover, manifest, spine,
          nav, ncx, archive, call, prevCover, nWrites, nCovers,
          pkgTitle, env, io, sched, meta>>

(***************************************************************************)
(* Bounds of the model.                                                    *)
(***************************************************************************)
MaxMedia    == 1   \* resources registered by Add* calls, all categories together
MaxSections == 2   \* sections and subsections added by AddSection and AddSubSection
MaxWrites   == 2   \* WriteTo calls
MaxCovers   == 2   \* SetCover calls

(***************************************************************************)
(* Characters.                                                             *)
(***************************************************************************)
Digit == <<"0", "1", "2", "3", "4", "5", "6", "7", "8", "9">>
Upper == <<"A", "B", "C", "D", "E", "F", "G", "H", "I", "J", "K", "L", "M",
           "N", "O", "P", "Q", "R", "S", "T", "U", "V", "W", "X", "Y", "Z">>
Lower == <<"a", "b", "c", "d", "e", "f", "g", "h", "i", "j", "k", "l", "m",
           "n", "o", "p", "q", "r", "s", "t", "u", "v", "w", "x", "y", "z">>

Range(s) == {s[i] : i \in DOMAIN s}

\* unicode.IsNumber, unicode.IsPunct, unicode.IsSymbol, unicode.IsSpace on
\* the ASCII characters the model uses
IsNumber(r) == r \in Range(Digit)
IsPunct(r)  == r \in {".", "/", ":", ",", ";", "-", "_", "!", "#", "%"}
IsSymbol(r) == r \in {"+", "=", "<", ">", "$", "^", "~", "|"}
IsSpace(r)  == r \in {" ", "\t"}

\* the byte order of the characters, for the lexical order of fs.WalkDir
ByteOrder == <<"\t", " ", "!", "#", "$", "%", "+", ",", "-", ".", "/">>
             \o Digit \o <<":", ";", "<", "=", ">">> \o Upper
             \o <<"^", "_">> \o Lower \o <<"|", "~">>

Ord(r) == CHOOSE i \in DOMAIN ByteOrder : ByteOrder[i] = r

\* strings.ToLower
ToLowerRune(r) ==
    IF r \in Range(Upper)
    THEN Lower[CHOOSE i \in DOMAIN Upper : Upper[i] = r]
    ELSE r
ToLower(s) == [i \in DOMAIN s |-> ToLowerRune(s[i])]

\* the position of the last "/" of s, 0 when there is none
LastSlash(s) ==
    IF \E i \in DOMAIN s : s[i] = "/"
    THEN CHOOSE i \in DOMAIN s : s[i] = "/" /\ \A j \in DOMAIN s : s[j] = "/" => j <= i
    ELSE 0

\* s without its trailing "/" characters
RECURSIVE StripTrailingSlashes(_)
StripTrailingSlashes(s) ==
    IF Len(s) > 0 /\ s[Len(s)] = "/"
    THEN StripTrailingSlashes(SubSeq(s, 1, Len(s) - 1))
    ELSE s

\* filepath.Base
Base(path) ==
    IF path = <<>> THEN <<".">>
    ELSE LET p == StripTrailingSlashes(path)
         IN  IF p = <<>> THEN <<"/">>
             ELSE SubSeq(p, LastSlash(p) + 1, Len(p))

\* filepath.Ext: the suffix starting at the last "." of the last element
Ext(path) ==
    LET from == LastSlash(path) + 1
        dots == {i \in from..Len(path) : path[i] = "."}
    IN  IF dots = {} THEN <<>>
        ELSE SubSeq(path, CHOOSE i \in dots : \A j \in dots : j <= i, Len(path))

\* fs.ValidPath: slash-separated elements, none of them "", "." or ".."
RECURSIVE ValidPath(_)
ValidPath(name) ==
    IF name = <<".">> THEN TRUE
    ELSE LET slashes == {i \in DOMAIN name : name[i] = "/"}
             i == IF slashes = {} THEN Len(name) + 1
                  ELSE CHOOSE k \in slashes : \A j \in slashes : k <= j
             elem == SubSeq(name, 1, i - 1)
         IN  IF elem = <<>> \/ elem = <<".">> \/ elem = <<".", ".">> THEN FALSE
             ELSE IF i = Len(name) + 1 THEN TRUE
             ELSE ValidPath(SubSeq(name, i + 1, Len(name)))

\* the decimal digits of n
RECURSIVE Itoa(_)
Itoa(n) == IF n < 10 THEN <<Digit[n + 1]>> ELSE Itoa(n \div 10) \o <<Digit[(n % 10) + 1]>>

\* fmt's %04d
RECURSIVE PadLeft(_, _)
PadLeft(s, width) == IF Len(s) >= width THEN s ELSE PadLeft(<<"0">> \o s, width)
FormatWidth == 4
Pad04d(n) == PadLeft(Itoa(n), FormatWidth)

\* fmt.Sprintf(format, n, ext) for the formats "<prefix>%04d%s"
Sprintf(prefix, n, ext) == prefix \o Pad04d(n) \o ext

\* path.Join("..", folder, filename); the filenames of the model have no
\* "/" and are not "." or "..", so path.Clean leaves the joined path as it is
JoinPath(folder, filename) == <<".", ".", "/">> \o folder \o <<"/">> \o filename

\* lexical order on strings, byte by byte
RECURSIVE StrLess(_, _)
StrLess(a, b) ==
    IF a = <<>> THEN b # <<>>
    ELSE IF b = <<>> THEN FALSE
    ELSE IF a[1] = b[1] THEN StrLess(Tail(a), Tail(b))
    ELSE Ord(a[1]) < Ord(b[1])

\* the strings of a set in lexical order
RECURSIVE SortStrings(_)
SortStrings(S) ==
    IF S = {} THEN <<>>
    ELSE LET m == CHOOSE x \in S : \A y \in S \ {x} : StrLess(x, y)
         IN  <<m>> \o SortStrings(S \ {m})

(***************************************************************************)
(* Program constants (epub.go, write.go, toc.go).                          *)
(***************************************************************************)
CSSFolderName   == <<"c", "s", "s">>
FontFolderName  == <<"f", "o", "n", "t", "s">>
ImageFolderName == <<"i", "m", "a", "g", "e", "s">>
VideoFolderName == <<"v", "i", "d", "e", "o", "s">>

cssFileFormat     == <<"c", "s", "s">>            \* "css%04d%s"
fontFileFormat    == <<"f", "o", "n", "t">>       \* "font%04d%s"
imageFileFormat   == <<"i", "m", "a", "g", "e">>  \* "image%04d%s"
videoFileFormat   == <<"v", "i", "d", "e", "o">>  \* "video%04d%s"
sectionFilePrefix == <<"s", "e", "c", "t", "i", "o", "n">>  \* "section%04d.xhtml"
xhtmlExt          == <<".", "x", "h", "t", "m", "l">>
cssExt            == <<".", "c", "s", "s">>

defaultCoverCSSFilename   == <<"c", "o", "v", "e", "r">> \o cssExt
defaultCoverXhtmlFilename == <<"c", "o", "v", "e", "r">> \o xhtmlExt
\* dataurl.EncodeBytes(defaultCoverCSSContent): "data:..." (content elided)
defaultCoverCSSDataURL    == <<"d", "a", "t", "a", ":">>

contentFolderName == <<"E", "P", "U", "B">>
metaInfFolderName == <<"M", "E", "T", "A", "-", "I", "N", "F">>
xhtmlFolderName   == <<"x", "h", "t", "m", "l">>
mimetypeFilename  == <<"m", "i", "m", "e", "t", "y", "p", "e">>
containerFilename == <<"c", "o", "n", "t", "a", "i", "n", "e", "r", ".", "x", "m", "l">>
pkgFilename       == <<"p", "a", "c", "k", "a", "g", "e", ".", "o", "p", "f">>
tocNavFilename    == <<"n", "a", "v">> \o xhtmlExt
tocNcxFilename    == <<"t", "o", "c", ".", "n", "c", "x">>
tocNavItemID      == <<"n", "a", "v">>
tocNcxItemID      == <<"n", "c", "x">>
coverImageProperties == "cover-image"
MaxFilenameLen    == 255

sectionFileFormat(index) == Sprintf(sectionFilePrefix, index, xhtmlExt)

(***************************************************************************)
(* Small helpers on maps and sequences.                                    *)
(***************************************************************************)
EmptyMap == [x \in {} |-> <<>>]

\* Go's delete(m, k)
Delete(m, k) == [x \in (DOMAIN m) \ {k} |-> m[x]]

\* m[k] = v
Put(m, k, v) == [x \in (DOMAIN m) \cup {k} |-> IF x = k THEN v ELSE m[x]]

\* append(s[:i], s[i+1:]...) with i counted from 1
RemoveAt(s, i) == SubSeq(s, 1, i - 1) \o SubSeq(s, i + 1, Len(s))

\* the orders in which a range loop may visit the keys of a Go map
Orders(S) ==
    {o \in [1..Cardinality(S) -> S] : \A i, j \in DOMAIN o : i # j => o[i] # o[j]}

NoError                  == "nil"
FilenameAlreadyUsedError == "FilenameAlreadyUsedError"
FileRetrievalError       == "FileRetrievalError"
ParentDoesNotExistError  == "ParentDoesNotExistError"
Panic                    == "panic"
UnableToCreateEpubError  == "UnableToCreateEpubError"
\* the error dst.Write returned, as z.Close hands it on
WriterError              == "error of the destination writer"

(***************************************************************************)
(* addMedia (epub.go).  checkOk is the outcome of grabber.checkMedia on    *)
(* the source, which depends on the file system and the network.           *)
(***************************************************************************)
\* generatedMediaFilename with the extension as the source spells it
generatedMediaFilename_extAsIs(source, mediaFileFormat, mediaMap) ==
    Sprintf(mediaFileFormat, Cardinality(DOMAIN mediaMap) + 1, Ext(source))

generatedMediaFilename(source, mediaFileFormat, mediaMap) ==
    Sprintf(mediaFileFormat, Cardinality(DOMAIN mediaMap) + 1, ToLower(Ext(source)))

\* needsGeneratedFilename of an addMedia that never uses the base name
needsGeneratedFilename_always(source, mediaMap) == TRUE

needsGeneratedFilename(source, mediaMap) ==
    LET internalFilename == Base(source)
    IN  \/ Len(internalFilename) > MaxFilenameLen
        \/ ~ValidPath(internalFilename)
        \/ internalFilename \in DOMAIN mediaMap

resolveFilename(source, internalFilename, mediaFileFormat, mediaMap) ==
    IF internalFilename = <<>>
    THEN IF needsGeneratedFilename(source, mediaMap)
         THEN generatedMediaFilename(source, mediaFileFormat, mediaMap)
         ELSE Base(source)
    ELSE internalFilename

\* addMedia testing the filename against the four registries of the Epub
addMedia_oneNamespace(checkOk, source, internalFilename, mediaFileFormat, mediaFolderName, mediaMap) ==
    IF ~checkOk
    THEN [map |-> mediaMap, filename |-> <<>>, ret |-> <<>>, err |-> FileRetrievalError]
    ELSE LET f == resolveFilename(source, internalFilename, mediaFileFormat, mediaMap)
         IN  IF f \in DOMAIN css \cup DOMAIN fonts \cup DOMAIN images \cup DOMAIN videos
             THEN [map |-> mediaMap, filename |-> <<>>, ret |-> <<>>,
                   err |-> FilenameAlreadyUsedError]
             ELSE [map |-> Put(mediaMap, f, source), filename |-> f,
                   ret |-> JoinPath(mediaFolderName, f), err |-> NoError]

\* addMedia without the test "if _, ok := mediaMap[internalFilename]; ok"
addMedia_overwrite(checkOk, source, internalFilename, mediaFileFormat, mediaFolderName, mediaMap) ==
    IF ~checkOk
    THEN [map |-> mediaMap, filename |-> <<>>, ret |-> <<>>, err |-> FileRetrievalError]
    ELSE LET f == resolveFilename(source, internalFilename, mediaFileFormat, mediaMap)
         IN  [map |-> Put(mediaMap, f, source), filename |-> f,
              ret |-> JoinPath(mediaFolderName, f), err |-> NoError]

addMedia(checkOk, source, internalFilename, mediaFileFormat, mediaFolderName, mediaMap) ==
    IF ~checkOk
    THEN [map |-> mediaMap, filename |-> <<>>, ret |-> <<>>, err |-> FileRetrievalError]
    ELSE LET f == resolveFilename(source, internalFilename, mediaFileFormat, mediaMap)
         IN  IF f \in DOMAIN mediaMap
             THEN [map |-> mediaMap, filename |-> <<>>, ret |-> <<>>,
                   err |-> FilenameAlreadyUsedError]
             ELSE [map |-> Put(mediaMap, f, source), filename |-> f,
                   ret |-> JoinPath(mediaFolderName, f), err |-> NoError]

(***************************************************************************)
(* addSection (epub.go).  Positions in e.sections are counted from 1 and   *)
(* parentIndex 0 stands for Go's -1.                                       *)
(***************************************************************************)
NoParent == 0

\* the loop over *section.children of the generating branch
RECURSIVE scanChildren(_, _, _, _)
scanChildren(children, k, internalFilename, index) ==
    IF k > Len(children) THEN [filename |-> internalFilename, index |-> index]
    ELSE IF children[k].filename = internalFilename
         THEN scanChildren(children, k + 1, <<>>, index + 1)
         ELSE scanChildren(children, k + 1, internalFilename, index)

\* one pass of "for item, section := range e.sections" of the generating branch
RECURSIVE scanSections(_, _, _, _, _, _)
scanSections(secs, parentFilename, item, internalFilename, index, parentIndex) ==
    IF item > Len(secs)
    THEN [filename |-> internalFilename, index |-> index, parentIndex |-> parentIndex]
    ELSE LET section == secs[item]
             pIdx    == IF section.filename = parentFilename THEN item ELSE parentIndex
             hit     == section.filename = internalFilename
             f1      == IF hit THEN <<>> ELSE internalFilename
             i1      == IF hit THEN index + 1 ELSE index
         IN  IF hit /\ (parentFilename = <<>> \/ pIdx # NoParent)
             THEN [filename |-> f1, index |-> i1, parentIndex |-> pIdx]   \* break
             ELSE LET c == scanChildren(section.children, 1, f1, i1)
                  IN  scanSections(secs, parentFilename, item + 1, c.filename, c.index, pIdx)

\* "for internalFilename == "" { ... }"
RECURSIVE generateSectionFilename(_, _, _, _)
generateSectionFilename(secs, parentFilename, index, parentIndex) ==
    LET r == scanSections(secs, parentFilename, 1, sectionFileFormat(index), index, parentIndex)
    IN  IF r.filename = <<>>
        THEN generateSectionFilename(secs, parentFilename, r.index, r.parentIndex)
        ELSE r

\* the else branch: the filename was given
\* the else branch without its loop over *section.children
filenameUsed_topLevelOnly(secs, internalFilename) ==
    \E i \in DOMAIN secs : secs[i].filename = internalFilename

filenameUsed(secs, internalFilename) ==
    \E i \in DOMAIN secs :
        \/ secs[i].filename = internalFilename
        \/ \E k \in DOMAIN secs[i].children : secs[i].children[k].filename = internalFilename

findParent(secs, parentFilename) ==
    IF \E i \in DOMAIN secs : secs[i].filename = parentFilename
    THEN CHOOSE i \in DOMAIN secs :
             /\ secs[i].filename = parentFilename
             /\ \A j \in DOMAIN secs : secs[j].filename = parentFilename => j <= i
    ELSE NoParent

epubSection(filename, title) == [filename |-> filename, title |-> title, children |-> <<>>]

appendSection(secs, parentIndex, s) ==
    IF parentIndex # NoParent
    THEN [secs EXCEPT ![parentIndex].children = Append(@, s)]
    ELSE Append(secs, s)

\* addSection numbering a generated filename by the count of sections, as
\* addMedia numbers its filenames
addSection_numberByCount(secs, parentFilename, sectionTitle, internalFilename) ==
    IF internalFilename # <<>> /\ filenameUsed(secs, internalFilename)
    THEN [sections |-> secs, ret |-> <<>>, err |-> FilenameAlreadyUsedError]
    ELSE LET f == IF internalFilename = <<>> THEN sectionFileFormat(Len(secs) + 1)
                  ELSE internalFilename
             parentIndex == findParent(secs, parentFilename)
         IN  IF parentFilename # <<>> /\ parentIndex = NoParent
             THEN [sections |-> secs, ret |-> <<>>, err |-> ParentDoesNotExistError]
             ELSE [sections |-> appendSection(secs, parentIndex, epubSection(f, sectionTitle)),
                   ret |-> f, err |-> NoError]

addSection(secs, parentFilename, sectionTitle, internalFilename) ==
    IF internalFilename # <<>> /\ filenameUsed(secs, internalFilename)
    THEN [sections |-> secs, ret |-> <<>>, err |-> FilenameAlreadyUsedError]
    ELSE LET g == IF internalFilename = <<>>
                  THEN generateSectionFilename(secs, parentFilename, 1, NoParent)
                  ELSE [filename |-> internalFilename, index |-> 1,
                        parentIndex |-> findParent(secs, parentFilename)]
         IN  IF parentFilename # <<>> /\ g.parentIndex = NoParent
             THEN [sections |-> secs, ret |-> <<>>, err |-> ParentDoesNotExistError]
             ELSE [sections |-> appendSection(secs, g.parentIndex,
                                              epubSection(g.filename, sectionTitle)),
                   ret |-> g.filename, err |-> NoError]

(***************************************************************************)
(* SetCover (epub.go).  The result is the Epub after the call; panicked    *)
(* tells that one of the two panics of the default-stylesheet branch was   *)
(* reached, with the fields as they were left at that point.               *)
(***************************************************************************)
\* the title NewEpub is given, and e.Title()
testEpubTitle == "My title"
epubTitle == pkgTitle

removeCoverSection(secs, xhtmlFilename) ==
    IF \E i \in DOMAIN secs : secs[i].filename = xhtmlFilename
    THEN RemoveAt(secs, CHOOSE i \in DOMAIN secs :
                            /\ secs[i].filename = xhtmlFilename
                            /\ \A j \in DOMAIN secs : secs[j].filename = xhtmlFilename => i <= j)
    ELSE secs

\* the default cover stylesheet: cover.css, or css%04d.css when that is taken
addDefaultCoverCSS(cssMap) ==
    LET first == addMedia(TRUE, defaultCoverCSSDataURL, defaultCoverCSSFilename,
                          cssFileFormat, CSSFolderName, cssMap)
    IN  IF first.err = FilenameAlreadyUsedError
        THEN addMedia(TRUE, defaultCoverCSSDataURL,
                      Sprintf(cssFileFormat, Cardinality(DOMAIN cssMap) + 1, cssExt),
                      cssFileFormat, CSSFolderName, cssMap)
        ELSE first

\* the cover page: cover.xhtml, or a generated filename when that is taken
addCoverSection(secs) ==
    LET first == addSection(secs, <<>>, "", defaultCoverXhtmlFilename)
    IN  IF first.err = FilenameAlreadyUsedError
        THEN addSection(secs, <<>>, "", <<>>)
        ELSE first

SetCoverResult(internalImagePath, internalCSSPath) ==
    LET had   == cover.xhtmlFilename # <<>>
        secs1 == IF had THEN removeCoverSection(sections, cover.xhtmlFilename) ELSE sections
        img1  == IF had THEN Delete(images, cover.imageFilename) ELSE images
        css1  == IF had THEN Delete(css, cover.cssFilename) ELSE css
        dflt  == internalCSSPath = <<>>
        c     == addDefaultCoverCSS(css1)
        css2  == IF dflt THEN c.map ELSE css1
        path  == IF dflt THEN c.ret ELSE internalCSSPath
        x     == addCoverSection(secs1)
    IN  IF dflt /\ c.err # NoError
        THEN [panicked |-> TRUE, css |-> css1, images |-> img1, sections |-> secs1,
              cover |-> [cover EXCEPT !.imageFilename = Base(internalImagePath),
                                      !.cssTempFile = defaultCoverCSSDataURL]]
        ELSE [panicked |-> x.err = FilenameAlreadyUsedError,
              css |-> css2, images |-> img1, sections |-> x.sections,
              cover |-> [cssFilename   |-> Base(path),
                         cssTempFile   |-> IF dflt THEN defaultCoverCSSDataURL
                                           ELSE cover.cssTempFile,
                         imageFilename |-> Base(internalImagePath),
                         xhtmlFilename |-> Base(x.ret)]]

(***************************************************************************)
(* fixXMLId and writeMedia (write.go).                                     *)
(***************************************************************************)
fixXMLId(id) ==
    LET prefix == IF IsNumber(id[1]) \/ IsPunct(id[1]) \/ IsSymbol(id[1])
                  THEN <<"i", "d">> ELSE <<>>
    IN  prefix \o SelectSeq(id, LAMBDA r : ~IsSpace(r) /\ r # ":")

\* filepath.Join of path elements
Join2(a, b) == a \o <<"/">> \o b

pkgItem(id, href, properties) == [id |-> id, href |-> href, properties |-> properties]

\* the manifest item writeMedia adds for one fetched file
mediaItem(mediaFilename, mediaFolderName, coverImageFilename) ==
    pkgItem(fixXMLId(mediaFilename), Join2(mediaFolderName, mediaFilename),
            IF mediaFilename = coverImageFilename THEN coverImageProperties ELSE "")

\* writeMedia over the keys in the order `order`, the fetch of the key at
\* position failAt failing (0: none fails).  Files fetched before are staged
\* and in the manifest.
writeMedia(order, failAt, mediaFolderName, coverImageFilename) ==
    LET n == IF failAt = 0 THEN Len(order) ELSE failAt - 1
    IN  [ok    |-> failAt = 0,
         items |-> [i \in 1..n |-> mediaItem(order[i], mediaFolderName, coverImageFilename)],
         files |-> {<<contentFolderName, mediaFolderName, order[i]>> : i \in 1..n}]

(***************************************************************************)
(* toc.addSection and toc.addSubSection (toc.go).  Positions are counted   *)
(* from 1; Go's zero value of parentNavIndex and parentNcxIndex is 1 here. *)
(***************************************************************************)
navPointID(index) == <<"n", "a", "v", "P", "o", "i", "n", "t", "-">> \o Itoa(index)

tocNavItem(href, title) == [href |-> href, title |-> title, children |-> <<>>]
tocNcxNavPoint(index, title, src) ==
    [id |-> navPointID(index), text |-> title, src |-> src, children |-> <<>>]

\* toc.addSection numbering the navPoint from one
tocAddSection_fromOne(t, index, title, relativePath) ==
    [nav |-> Append(t.nav, tocNavItem(relativePath, title)),
     ncx |-> Append(t.ncx, tocNcxNavPoint(index + 1, title, relativePath))]

tocAddSection(t, index, title, relativePath) ==
    [nav |-> Append(t.nav, tocNavItem(relativePath, title)),
     ncx |-> Append(t.ncx, tocNcxNavPoint(index, title, relativePath))]

\* the last position whose link matches parent, the first position otherwise
lastMatch(hrefs, parent) ==
    LET hits == {i \in DOMAIN hrefs : hrefs[i] = parent}
    IN  IF hits = {} THEN 1 ELSE CHOOSE i \in hits : \A j \in hits : j <= i

tocAddSubSection(t, parent, index, title, relativePath) ==
    LET parentNavIndex == lastMatch([i \in DOMAIN t.nav |-> t.nav[i].href], parent)
        parentNcxIndex == lastMatch([i \in DOMAIN t.ncx |-> t.ncx[i].src], parent)
        l   == tocNavItem(relativePath, title)
        np  == tocNcxNavPoint(index, title, relativePath)
        nav1 == IF Len(t.nav) > parentNavIndex - 1
                THEN [t.nav EXCEPT ![parentNavIndex].children = Append(@, l)]
                ELSE Append(t.nav, l)
        ncx1 == IF parentNcxIndex - 1 > Len(t.ncx)
                THEN [t.ncx EXCEPT ![parentNcxIndex].children = Append(@, np)]
                ELSE Append(t.ncx, np)
    IN  [nav |-> nav1, ncx |-> ncx1]

(***************************************************************************)
(* writeSections and writeToc (write.go).  w is the state of one WriteTo:  *)
(* the package manifest and spine, the two navigation trees, the files     *)
(* staged so far and the sections (the title of the cover page is set in   *)
(* place, section.xhtml being a pointer).                                  *)
(***************************************************************************)
mediaTypeXhtml == "application/xhtml+xml"

xhtmlFile(filename) == <<contentFolderName, xhtmlFolderName, filename>>

\* the loop "for _, child := range *section.children"
RECURSIVE writeChildren(_, _, _, _, _)
writeChildren(w, children, k, index, relativePath) ==
    IF k > Len(children) THEN [w |-> w, index |-> index]
    ELSE LET child == children[k]
             idx   == index + 1
             relativeSubPath == Join2(xhtmlFolderName, child.filename)
             t     == tocAddSubSection([nav |-> w.nav, ncx |-> w.ncx], relativePath,
                                       idx, child.title, relativeSubPath)
             w1    == [w EXCEPT !.nav = t.nav, !.ncx = t.ncx,
                                !.files = @ \cup {xhtmlFile(child.filename)},
                                !.spine = Append(@, child.filename),
                                !.manifest = Append(@, pkgItem(child.filename, relativeSubPath, ""))]
         IN  writeChildren(w1, children, k + 1, idx, relativePath)

\* the loop "for _, section := range e.sections"
RECURSIVE writeSectionLoop(_, _, _, _)
writeSectionLoop(w, item, index, coverXhtmlFilename) ==
    IF item > Len(w.sections) THEN w
    ELSE LET section == w.sections[item]
             isCover == section.filename = coverXhtmlFilename
             title   == IF isCover THEN epubTitle ELSE section.title
             relativePath == Join2(xhtmlFolderName, section.filename)
             w1 == [w EXCEPT !.sections[item].title = title,
                             !.files = @ \cup {xhtmlFile(section.filename)},
                             !.spine = IF isCover THEN @ ELSE Append(@, section.filename),
                             !.manifest = Append(@, pkgItem(section.filename, relativePath, ""))]
         IN  IF title # "" /\ ~isCover
             THEN LET t  == tocAddSection([nav |-> w1.nav, ncx |-> w1.ncx], index,
                                          title, relativePath)
                      w2 == [w1 EXCEPT !.nav = t.nav, !.ncx = t.ncx]
                      c  == writeChildren(w2, section.children, 1, index, relativePath)
                  IN  writeSectionLoop(c.w, item + 1, c.index + 1, coverXhtmlFilename)
             ELSE writeSectionLoop(w1, item + 1, index + 1, coverXhtmlFilename)

writeSections(w, coverXhtmlFilename) ==
    IF Len(w.sections) > 0
    THEN writeSectionLoop(
             IF coverXhtmlFilename # <<>>
             THEN [w EXCEPT !.spine = Append(@, coverXhtmlFilename)] ELSE w,
             1, 0, coverXhtmlFilename)
    ELSE w

writeToc(w) ==
    [w EXCEPT !.manifest = @ \o <<pkgItem(tocNavItemID, tocNavFilename, "nav"),
                                  pkgItem(tocNcxItemID, tocNcxFilename, "")>>,
              !.files = @ \cup {<<contentFolderName, tocNavFilename>>,
                                <<contentFolderName, tocNcxFilename>>}]

writePackageFile(w) == [w EXCEPT !.files = @ \cup {<<contentFolderName, pkgFilename>>}]

(***************************************************************************)
(* writeEpub (write.go).  A staged file is the sequence of its path        *)
(* elements below the temporary directory.                                 *)
(***************************************************************************)
Store   == "Store"
Deflate == "Deflate"

RECURSIVE JoinElems(_)
JoinElems(path) == IF Len(path) = 1 THEN path[1] ELSE Join2(path[1], JoinElems(Tail(path)))

\* fs.WalkDir: the entries below a directory, a directory before what it
\* holds, each directory's entries in lexical order; regular tells a file
\* from a directory (d.Info().Mode().IsRegular())
RECURSIVE WalkDir(_, _)
RECURSIVE WalkEntries(_, _, _)
WalkDir(prefix, files) == WalkEntries(prefix, files, SortStrings({f[1] : f \in files}))
WalkEntries(prefix, files, names) ==
    IF names = <<>> THEN <<>>
    ELSE LET name == Head(names)
             here == IF <<name>> \in files
                     THEN <<[path |-> prefix \o <<name>>, regular |-> TRUE]>>
                     ELSE <<[path |-> prefix \o <<name>>, regular |-> FALSE]>>
                          \o WalkDir(prefix \o <<name>>,
                                     {Tail(f) : f \in {g \in files : g[1] = name /\ Len(g) > 1}})
         IN  here \o WalkEntries(prefix, files, Tail(names))

\* addFileToZip with every entry created by z.Create, the mimetype file too
addFileToZip_allDeflate(path, regular, skipMimetypeFile) ==
    IF ~regular \/ (path = <<mimetypeFilename>> /\ skipMimetypeFile) THEN <<>>
    ELSE <<[name |-> JoinElems(path), method |-> Deflate]>>

\* addFileToZip without the test for a regular file
addFileToZip_directories(path, regular, skipMimetypeFile) ==
    IF path = <<mimetypeFilename>>
    THEN IF skipMimetypeFile THEN <<>>
         ELSE <<[name |-> JoinElems(path), method |-> Store]>>
    ELSE <<[name |-> JoinElems(path), method |-> Deflate]>>

\* the closure addFileToZip: the zip entries it creates for one entry of
\* the walk
addFileToZip(path, regular, skipMimetypeFile) ==
    IF ~regular THEN <<>>
    ELSE IF path = <<mimetypeFilename>>
    THEN IF skipMimetypeFile THEN <<>>
         ELSE <<[name |-> JoinElems(path), method |-> Store]>>
    ELSE <<[name |-> JoinElems(path), method |-> Deflate]>>

RECURSIVE zipAll(_)
zipAll(entries) ==
    IF entries = <<>> THEN <<>>
    ELSE addFileToZip(Head(entries).path, Head(entries).regular, TRUE) \o zipAll(Tail(entries))

writeEpub(files) ==
    addFileToZip(<<mimetypeFilename>>, TRUE, FALSE) \o zipAll(WalkDir(<<>>, files))

(***************************************************************************)
(* WriteTo (write.go).  oc, of, oi, ov are the orders in which the range   *)
(* loops of writeMedia visit the four maps; the fetch at position failAt   *)
(* of category failCat fails (failCat "none": every fetch succeeds).       *)
(***************************************************************************)
writeMimetype == {<<mimetypeFilename>>}
writeContainerFile == {<<metaInfFolderName, containerFilename>>}

WriteToResult(oc, of, oi, ov, failCat, failAt) ==
    LET at(cat) == IF failCat = cat THEN failAt ELSE 0
        mc == writeMedia(oc, at("css"), CSSFolderName, cover.imageFilename)
        mf == writeMedia(of, at("fonts"), FontFolderName, cover.imageFilename)
        mi == writeMedia(oi, at("images"), ImageFolderName, cover.imageFilename)
        mv == writeMedia(ov, at("videos"), VideoFolderName, cover.imageFilename)
        items == mc.items
                 \o (IF mc.ok THEN mf.items ELSE <<>>)
                 \o (IF mc.ok /\ mf.ok THEN mi.items ELSE <<>>)
                 \o (IF mc.ok /\ mf.ok /\ mi.ok THEN mv.items ELSE <<>>)
        w0 == [manifest |-> manifest \o items, spine |-> spine, nav |-> nav, ncx |-> ncx,
               sections |-> sections,
               files |-> writeMimetype \cup writeContainerFile
                         \cup mc.files \cup mf.files \cup mi.files \cup mv.files]
        w3 == writePackageFile(writeToc(writeSections(w0, cover.xhtmlFilename)))
    IN  IF failCat # "none"
        THEN [w0 EXCEPT !.files = {}] @@ [archive |-> <<>>, err |-> FileRetrievalError]
        ELSE w3 @@ [archive |-> writeEpub(w3.files), err |-> NoError]

(***************************************************************************)
(* grabber (grabber.go).  world is what the calls of the handlers meet:    *)
(* files, the local paths that are regular files, and status, the status   *)
(* the HTTP server answers with.  A handler is TRUE when it returns no     *)
(* error.                                                                  *)
(***************************************************************************)
StatusBadRequest == 400
Statuses == {200, 404}

HasPrefix(s, prefix) == Len(s) >= Len(prefix) /\ SubSeq(s, 1, Len(prefix)) = prefix

httpScheme == <<"h", "t", "t", "p", ":", "/", "/">>
dataScheme == <<"d", "a", "t", "a", ":">>

\* os.Stat and os.Open: a path below a regular file is ENOTDIR, any other
\* path that is no file is ENOENT
Stat(world, mediaSource) ==
    IF mediaSource \in world.files THEN "ok"
    ELSE IF \E i \in DOMAIN mediaSource :
                mediaSource[i] = "/" /\ SubSeq(mediaSource, 1, i - 1) \in world.files
         THEN "ENOTDIR"
         ELSE "ENOENT"

\* with onlyCheck the error of os.Stat is returned only under os.IsNotExist
localHandler(world, mediaSource, onlyCheck) ==
    IF onlyCheck THEN Stat(world, mediaSource) # "ENOENT"
    ELSE Stat(world, mediaSource) = "ok"

\* g.Head and g.Get fail on a string that is no URL
httpHandler(world, mediaSource, onlyCheck) ==
    /\ HasPrefix(mediaSource, httpScheme)
    /\ ~(world.status > StatusBadRequest)

\* dataurl.DecodeString
dataURLHandler(world, mediaSource, onlyCheck) ==
    /\ HasPrefix(mediaSource, dataScheme)
    /\ \E i \in DOMAIN mediaSource : mediaSource[i] = ","

\* the handlers in the order of the loop, and the ones the loop calls: it
\* leaves at the first that returns no error
handlerNames == <<"localHandler", "httpHandler", "dataURLHandler">>

handlersTried(local, http) ==
    IF local THEN SubSeq(handlerNames, 1, 1)
    ELSE IF http THEN SubSeq(handlerNames, 1, 2) ELSE handlerNames

checkMedia(world, mediaSource) ==
    LET local == localHandler(world, mediaSource, TRUE)
        http  == httpHandler(world, mediaSource, TRUE)
        data  == dataURLHandler(world, mediaSource, TRUE)
    IN  [ok |-> local \/ http \/ data, tried |-> handlersTried(local, http)]

\* fetchMedia_ignoreError: fetchMedia whose caller goes on after an error
fetchMedia_ignoreError(world, mediaSource) ==
    [ok |-> TRUE, tried |-> handlerNames]

fetchMedia(world, mediaSource) ==
    LET local == localHandler(world, mediaSource, FALSE)
        http  == httpHandler(world, mediaSource, FALSE)
        data  == dataURLHandler(world, mediaSource, FALSE)
    IN  [ok |-> local \/ http \/ data, tried |-> handlersTried(local, http)]

\* what a call did to the world: the handlers its check called, the
\* resources its fetches asked for, the bytes it reported, the bytes the
\* destination holds and the names it created in the storage backend
IoOf(tried, fetched, n, written) ==
    [tried |-> tried, fetched |-> fetched, n |-> n, written |-> written, staged |-> {}]

NoIo == IoOf(<<>>, <<>>, 0, 0)

(***************************************************************************)
(* The storage backend (storage.go, internal/storage).  filesystem is one  *)
(* of two backends: OSFS, a directory tree below os.TempDir(), and Memory, *)
(* a map from names to files.  world.os holds the paths of the operating   *)
(* system's file system, world.mem the keys of the map.  The calls of the  *)
(* backend are taken to succeed.                                           *)
(***************************************************************************)
OsFS     == "OsFS"
MemoryFS == "MemoryFS"
FSTypes  == {OsFS, MemoryFS}

TempRoot == <<"/", "t", "m", "p">>      \* os.TempDir()
Cwd      == <<"/", "w">>                \* the working directory of the process

\* OSFS: filepath.Join(o.rootDir, name)
osfsPath(name) == Join2(TempRoot, name)

\* Mkdir, WriteFile and Create of the backend, for a set of names
storeAdd(world, names) ==
    IF world.fs = OsFS
    THEN [world EXCEPT !.os = @ \cup {osfsPath(name) : name \in names}]
    ELSE [world EXCEPT !.mem = @ \cup names]

\* os.RemoveAll: the path and what is below it
osRemoveAll(paths, path) ==
    {k \in paths : ~(k = path \/ HasPrefix(k, path \o <<"/">>))}

\* os.Remove: a file or an empty directory
osRemove(paths, path) ==
    IF \E k \in paths : HasPrefix(k, path \o <<"/">>) THEN paths ELSE paths \ {path}

\* Memory.RemoveAll: every key that starts with name
memoryRemoveAll(keys, name) == {k \in keys : ~HasPrefix(k, name)}

\* filesystem.RemoveAll(name)
RemoveAll(world, name) ==
    IF world.fs = OsFS
    THEN [world EXCEPT !.os = osRemoveAll(@, osfsPath(name))]
    ELSE [world EXCEPT !.mem = memoryRemoveAll(@, name)]

\* os.Remove(e.cover.cssTempFile), a path relative to the working directory;
\* os.Remove("") fails
removeCSSTempFile(world, cssTempFile) ==
    IF cssTempFile = <<>> THEN world
    ELSE [world EXCEPT !.os = osRemove(@, Join2(Cwd, cssTempFile))]

\* the directory and the files that one writeMedia creates: the folder when
\* the map is not empty, a file for each fetch, the failing one included
\* (fetchMedia creates the file before it fetches)
mediaStaged(order, failAt, mediaFolderName) ==
    IF order = <<>> THEN {}
    ELSE {<<contentFolderName, mediaFolderName>>}
         \cup {<<contentFolderName, mediaFolderName, order[i]>> :
                  i \in 1..(IF failAt = 0 THEN Len(order) ELSE failAt)}

\* what WriteTo creates below its temporary directory, as path elements
stagedPaths(c) ==
    LET at(cat) == IF c.failCat = cat THEN c.failAt ELSE 0
    IN  {<<>>, <<contentFolderName>>, <<contentFolderName, xhtmlFolderName>>,
         <<metaInfFolderName>>}
        \cup writeMimetype \cup writeContainerFile
        \cup mediaStaged(c.oc, at("css"), CSSFolderName)
        \cup (IF c.failCat = "css" THEN {} ELSE
              mediaStaged(c.of, at("fonts"), FontFolderName)
              \cup (IF c.failCat = "fonts" THEN {} ELSE
                    mediaStaged(c.oi, at("images"), ImageFolderName)
                    \cup (IF c.failCat = "images" THEN {} ELSE
                          mediaStaged(c.ov, at("videos"), VideoFolderName))))
        \cup (IF c.failCat = "none"
              THEN WriteToResult(c.oc, c.of, c.oi, c.ov, c.failCat, c.failAt).files
              ELSE {})

stagedNames(tempDir, c) == {JoinElems(<<tempDir>> \o q) : q \in stagedPaths(c)}

\* the storage after WriteTo with the temporary directory tempDir: the
\* staging, the os.Remove of writeCSSFiles when the stylesheets were
\* fetched, and the deferred RemoveAll
WriteToStore(world, tempDir, c, cssTempFile) ==
    LET w1 == storeAdd(world, stagedNames(tempDir, c))
        w2 == IF c.failCat = "css" THEN w1 ELSE removeCSSTempFile(w1, cssTempFile)
    IN  RemoveAll(w2, tempDir)

\* updateMeta: m replaces the first element equal to it, and is appended
\* when there is none
updateMeta(a, m) ==
    IF \E i \in DOMAIN a : a[i] = m
    THEN [a EXCEPT ![CHOOSE i \in DOMAIN a : a[i] = m /\ \A j \in DOMAIN a : a[j] = m => i <= j] = m]
    ELSE Append(a, m)

pkgModifiedProperty == "dcterms:modified"

\* pkg.setModified, which pkg.write calls with the time of the write
setModified(a, timestamp) ==
    updateMeta(a, [property |-> pkgModifiedProperty, data |-> timestamp])

(***************************************************************************)
(* The public operations.  Each holds the Epub's mutex from its first to   *)
(* its last statement, so each is one step.                                *)
(***************************************************************************)
\* checked: what grabber.checkMedia found for the source (TRUE when the
\* operation makes no check)
Call(op, source, filename, parent, title, checked, ret, err) ==
    [op |-> op, source |-> source, filename |-> filename, parent |-> parent,
     title |-> title, checked |-> checked, ret |-> ret, err |-> err]

Running == call.err # Panic

MediaCount == Cardinality(DOMAIN css) + Cardinality(DOMAIN fonts)
              + Cardinality(DOMAIN images) + Cardinality(DOMAIN videos)

RECURSIVE SectionCount(_)
SectionCount(secs) ==
    IF secs = <<>> THEN 0 ELSE 1 + Len(Head(secs).children) + SectionCount(Tail(secs))

AddCSS(source, internalFilename, checkOk) ==
    /\ Running
    /\ \E r \in {addMedia(checkOk, source, internalFilename, cssFileFormat, CSSFolderName, css)} :
           /\ css' = r.map
           /\ call' = Call("AddCSS", source, internalFilename, <<>>, "", checkOk, r.ret, r.err)
    /\ UNCHANGED <<fonts, images, videos, sections, cover, manifest, spine, nav, ncx,
                   archive, prevCover, nWrites, nCovers>>

AddFont(source, internalFilename, checkOk) ==
    /\ Running
    /\ \E r \in {addMedia(checkOk, source, internalFilename, fontFileFormat, FontFolderName, fonts)} :
           /\ fonts' = r.map
           /\ call' = Call("AddFont", source, internalFilename, <<>>, "", checkOk, r.ret, r.err)
    /\ UNCHANGED <<css, images, videos, sections, cover, manifest, spine, nav, ncx,
                   archive, prevCover, nWrites, nCovers>>

AddImage(source, imageFilename, checkOk) ==
    /\ Running
    /\ \E r \in {addMedia(checkOk, source, imageFilename, imageFileFormat, ImageFolderName, images)} :
           /\ images' = r.map
           /\ call' = Call("AddImage", source, imageFilename, <<>>, "", checkOk, r.ret, r.err)
    /\ UNCHANGED <<css, fonts, videos, sections, cover, manifest, spine, nav, ncx,
                   archive, prevCover, nWrites, nCovers>>

AddVideo(source, videoFilename, checkOk) ==
    /\ Running
    /\ \E r \in {addMedia(checkOk, source, videoFilename, videoFileFormat, VideoFolderName, videos)} :
           /\ videos' = r.map
           /\ call' = Call("AddVideo", source, videoFilename, <<>>, "", checkOk, r.ret, r.err)
    /\ UNCHANGED <<css, fonts, images, sections, cover, manifest, spine, nav, ncx,
                   archive, prevCover, nWrites, nCovers>>

AddSection(sectionTitle, internalFilename) ==
    /\ Running
    /\ \E r \in {addSection(sections, <<>>, sectionTitle, internalFilename)} :
           /\ sections' = r.sections
           /\ call' = Call("AddSection", <<>>, internalFilename, <<>>, sectionTitle, TRUE, r.ret, r.err)
    /\ UNCHANGED <<css, fonts, images, videos, cover, manifest, spine, nav, ncx,
                   archive, prevCover, nWrites, nCovers>>

AddSubSection(parentFilename, sectionTitle, internalFilename) ==
    /\ Running
    /\ \E r \in {addSection(sections, parentFilename, sectionTitle, internalFilename)} :
           /\ sections' = r.sections
           /\ call' = Call("AddSubSection", <<>>, internalFilename, parentFilename,
                           sectionTitle, TRUE, r.ret, r.err)
    /\ UNCHANGED <<css, fonts, images, videos, cover, manifest, spine, nav, ncx,
                   archive, prevCover, nWrites, nCovers>>

SetCover(internalImagePath, internalCSSPath) ==
    /\ Running
    /\ \E r \in {SetCoverResult(internalImagePath, internalCSSPath)} :
           /\ css' = r.css
           /\ images' = r.images
           /\ sections' = r.sections
           /\ cover' = r.cover
           /\ call' = Call("SetCover", internalImagePath, internalCSSPath, <<>>, "", TRUE,
                           <<>>, IF r.panicked THEN Panic ELSE NoError)
    /\ prevCover' = cover
    /\ nCovers' = nCovers + 1
    /\ UNCHANGED <<fonts, videos, manifest, spine, nav, ncx, archive, nWrites>>

WriteTo(oc, of, oi, ov, failCat, failAt) ==
    /\ Running
    /\ \E r \in {WriteToResult(oc, of, oi, ov, failCat, failAt)} :
           /\ manifest' = r.manifest
           /\ spine' = r.spine
           /\ nav' = r.nav
           /\ ncx' = r.ncx
           /\ sections' = r.sections
           /\ archive' = r.archive
           /\ call' = Call("WriteTo", <<>>, <<>>, <<>>, "", TRUE, <<>>, r.err)
    /\ nWrites' = nWrites + 1
    /\ UNCHANGED <<css, fonts, images, videos, cover, prevCover, nCovers>>

(***************************************************************************)
(* writeEpub on a destination writer that can fail (write.go).  The zip    *)
(* writer hands its bytes to teeWriter in Write calls: with buffered, all  *)
(* of them in the one flush of z.Close, otherwise one call for each entry  *)
(* and one for the central directory that z.Close writes.  A length is     *)
(* counted in the characters of the entry names.  teeWriter is             *)
(* io.MultiWriter(counter, dst): each call adds its length to              *)
(* counter.Total and then goes to dst.  dst fails in call dstFailAt (0:    *)
(* never) after taking dstTaken bytes of it.                               *)
(***************************************************************************)
RECURSIVE Sum(_)
Sum(lengths) == IF lengths = <<>> THEN 0 ELSE Head(lengths) + Sum(Tail(lengths))

teeWrites(entries, buffered) ==
    LET each == [i \in DOMAIN entries |-> Len(entries[i].name)] \o <<Len(entries)>>
    IN  IF buffered THEN <<Sum(each)>> ELSE each

writeEpubTo(entries, buffered, dstFailAt, dstTaken) ==
    LET p == teeWrites(entries, buffered)
        before == Sum(SubSeq(p, 1, dstFailAt - 1))
    IN  IF dstFailAt = 0
        THEN [n |-> Sum(p), written |-> Sum(p), err |-> NoError]
        ELSE IF dstFailAt = Len(p)
        \* the flush of the last z.Close: "err = z.Close(); return counter.Total, err"
        THEN [n |-> before + p[dstFailAt], written |-> before + dstTaken, err |-> WriterError]
        \* an entry fails, and so does the z.Close of the error path: panic(err)
        ELSE [n |-> 0, written |-> before + dstTaken, err |-> Panic]

\* the fetches of one writeMedia: it returns at the first that fails
fetchAttempts(order, failAt, mediaFolderName) ==
    [i \in 1..(IF failAt = 0 THEN Len(order) ELSE failAt) |-> <<mediaFolderName, order[i]>>]

\* the fetches of the four writeMedia calls of WriteTo, which returns at
\* the first call that fails
fetchLog(oc, of, oi, ov, failCat, failAt) ==
    LET at(cat) == IF failCat = cat THEN failAt ELSE 0
    IN  fetchAttempts(oc, at("css"), CSSFolderName)
        \o (IF failCat = "css" THEN <<>> ELSE
            fetchAttempts(of, at("fonts"), FontFolderName)
            \o (IF failCat = "fonts" THEN <<>> ELSE
                fetchAttempts(oi, at("images"), ImageFolderName)
                \o (IF failCat = "images" THEN <<>> ELSE
                    fetchAttempts(ov, at("videos"), VideoFolderName))))

\* WriteTo(dst) as caller runs it: a call of WriteTo itself, or Write, which
\* hands it the file that os.Create returned (created records that outcome)
WriteToWriter(caller, created, c, buffered, dstFailAt, dstTaken) ==
    /\ Running
    /\ \E r \in {WriteToResult(c.oc, c.of, c.oi, c.ov, c.failCat, c.failAt)} :
         \E z \in {IF r.err = NoError
                   THEN writeEpubTo(r.archive, buffered, dstFailAt, dstTaken)
                   ELSE [n |-> 0, written |-> 0, err |-> r.err]} :
           /\ manifest' = r.manifest
           /\ spine' = r.spine
           /\ nav' = r.nav
           /\ ncx' = r.ncx
           /\ sections' = r.sections
           /\ archive' = IF z.err = NoError THEN r.archive ELSE <<>>
           /\ call' = Call(caller, <<>>, <<>>, <<>>, "", created, <<>>, z.err)
           /\ io' = IoOf(<<>>, fetchLog(c.oc, c.of, c.oi, c.ov, c.failCat, c.failAt),
                         z.n, z.written)
    /\ nWrites' = nWrites + 1
    /\ UNCHANGED <<css, fonts, images, videos, cover, prevCover, nCovers>>

\* Write with the os.Create of the destination left out
Write_createUnchecked(createOk, c, buffered, dstFailAt, dstTaken) ==
    /\ WriteToWriter("Write", createOk, c, buffered, dstFailAt, dstTaken)
    /\ UNCHANGED <<pkgTitle, env, sched, meta>>

\* Write(destFilePath): createOk is the outcome of os.Create
Write(createOk, c, buffered, dstFailAt, dstTaken) ==
    IF createOk
    THEN /\ WriteToWriter("Write", createOk, c, buffered, dstFailAt, dstTaken)
         /\ UNCHANGED <<pkgTitle, env, sched, meta>>
    ELSE /\ Running
         /\ call' = Call("Write", <<>>, <<>>, <<>>, "", FALSE, <<>>, UnableToCreateEpubError)
         /\ io' = NoIo
         /\ UNCHANGED <<css, fonts, images, videos, sections, cover, manifest, spine, nav,
                        ncx, archive, prevCover, nWrites, nCovers, pkgTitle, env, sched, meta>>

\* SetTitle(title)
SetTitle(newTitle) ==
    /\ Running
    /\ pkgTitle' = newTitle
    /\ call' = Call("SetTitle", <<>>, <<>>, <<>>, newTitle, TRUE, <<>>, NoError)
    /\ UNCHANGED <<css, fonts, images, videos, sections, cover, manifest, spine, nav, ncx,
                   archive, prevCover, nWrites, nCovers>>

\* a string header read while it is written: the pointer of one title with
\* the length of the other
TornTitle == "torn"

\* Title(): it reads e.title without the mutex.  written holds the titles
\* that SetTitle calls are writing while it reads: the read is then a data
\* race and returns the old title, a new one or a torn one.  The title it
\* returns is recorded as the title of the call.
Title(written) ==
    /\ Running
    /\ \E t \in {pkgTitle} \cup written \cup {TornTitle : w \in written} :
           call' = Call("Title", <<>>, <<>>, <<>>, t, TRUE, <<>>, NoError)
    /\ UNCHANGED <<css, fonts, images, videos, sections, cover, manifest, spine, nav, ncx,
                   archive, prevCover, nWrites, nCovers, pkgTitle>>

(***************************************************************************)
(* The mutex of the Epub (sync.Mutex, embedded) and the goroutines that    *)
(* call its methods.  A goroutine is idle, at the entry of a method (about *)
(* to Lock, where the method locks), in its body, or at its exit (about to *)
(* run the deferred Unlock).  order lists the calls in the order in which  *)
(* they took the mutex, with the filename they returned once their body    *)
(* has run; seen is the Epub as a goroutine found it when it entered the   *)
(* body.                                                                   *)
(***************************************************************************)
Goroutines == {1, 2}
Unlocked == 0

\* holdsMutex of an Epub whose WriteTo alone locks
holdsMutex_writeToOnly(op) == op = "WriteTo"

\* the methods that begin with "e.Lock(); defer e.Unlock()"
holdsMutex(op) == op \in {"AddCSS", "AddFont", "AddImage", "AddVideo", "AddSection",
                          "AddSubSection", "SetCover", "SetTitle", "WriteTo"}

\* the fields of the Epub a method reads or writes, and those it writes
touches(op) ==
    CASE op = "AddCSS"     -> {"css"}
      [] op = "AddSection" -> {"sections"}
      [] op = "SetTitle"   -> {"title", "pkg", "toc"}
      [] op = "Title"      -> {"title"}
      [] op = "WriteTo"    -> {"css", "fonts", "images", "videos", "sections", "cover",
                               "title", "pkg", "toc"}
writes(op) ==
    CASE op = "AddCSS"     -> {"css"}
      [] op = "AddSection" -> {"sections"}
      [] op = "SetTitle"   -> {"title", "pkg", "toc"}
      [] op = "Title"      -> {}
      [] op = "WriteTo"    -> {"sections", "pkg", "toc"}

EpubFields == <<css, fonts, images, videos, sections, cover, pkgTitle, manifest, spine, nav, ncx>>

InitSched ==
    [mutex |-> Unlocked,
     pc    |-> [g \in Goroutines |-> "idle"],
     op    |-> [g \in Goroutines |-> "none"],
     seen  |-> [g \in Goroutines |-> <<>>],
     order |-> <<>>,
     calls |-> 0]

(***************************************************************************)
(* NewEpub.                                                                *)
(***************************************************************************)
Init ==
    /\ css = EmptyMap /\ fonts = EmptyMap /\ images = EmptyMap /\ videos = EmptyMap
    /\ sections = <<>>
    /\ cover = [cssFilename |-> <<>>, cssTempFile |-> <<>>,
                imageFilename |-> <<>>, xhtmlFilename |-> <<>>]
    /\ manifest = <<>> /\ spine = <<>> /\ nav = <<>> /\ ncx = <<>>
    /\ archive = <<>>
    /\ call = Call("NewEpub", <<>>, <<>>, <<>>, "", TRUE, <<>>, NoError)
    /\ prevCover = cover
    /\ nWrites = 0 /\ nCovers = 0
    /\ pkgTitle = testEpubTitle
    /\ env = [files |-> {}, status |-> 200, fs |-> OsFS, os |-> {}, mem |-> {}, clock |-> 0]
    /\ io = NoIo
    /\ sched = InitSched
    /\ meta = <<>>

(***************************************************************************)
(* The inputs of the calls.                                                *)
(***************************************************************************)
SrcCSS      == <<"d", "/", "a">> \o cssExt                 \* "d/a.css"
SrcPNG      == <<"1", " ", "b", ".", "P", "N", "G">>       \* "1 b.PNG"
NameMissing == <<"n", "o">> \o xhtmlExt                    \* "no.xhtml"
SrcDotDot   == <<"d", "/", ".", ".">>                      \* "d/..", no valid base name
SrcTemplate == <<"c", "s", "s", "0", "0", "0", "2">> \o cssExt   \* "css0002.css"
\* "d/nn...n.CSS", the base name one character longer than addMedia accepts
SrcLong     == <<"d", "/">> \o [i \in 1..(MaxFilenameLen - 3) |-> "n"]
               \o <<".", "C", "S", "S">>
NameA       == <<"a">> \o cssExt                           \* "a.css"

Titles == {"", "Ch1"}

TopLevelFilenames(secs) == {secs[i].filename : i \in DOMAIN secs}
ChildFilenames(secs) ==
    UNION {{secs[i].children[k].filename : k \in DOMAIN secs[i].children} : i \in DOMAIN secs}
AllFilenames(secs) == TopLevelFilenames(secs) \cup ChildFilenames(secs)

\* what the environment of WriteTo chooses: the orders of the four range
\* loops and the fetch that fails, if one does
WriteChoices ==
    {c \in [oc : Orders(DOMAIN css), of : Orders(DOMAIN fonts), oi : Orders(DOMAIN images),
            ov : Orders(DOMAIN videos),
            failCat : {"none", "css", "fonts", "images", "videos"},
            failAt : 0..MediaCount] :
        /\ c.failCat = "none" => c.failAt = 0
        /\ c.failCat = "css" => c.failAt \in DOMAIN c.oc
        /\ c.failCat = "fonts" => c.failAt \in DOMAIN c.of
        /\ c.failCat = "images" => c.failAt \in DOMAIN c.oi
        /\ c.failCat = "videos" => c.failAt \in DOMAIN c.ov}

\* SetCover is given the path of a registered image and, optionally, of a
\* registered stylesheet, as AddImage and AddCSS returned them
CoverImagePaths == {JoinPath(ImageFolderName, f) : f \in DOMAIN images}
CoverCSSPaths   == {<<>>} \cup {JoinPath(CSSFolderName, g) : g \in DOMAIN css}

(***************************************************************************)
(* Spec: every operation, in any order, writes included.                   *)
(***************************************************************************)
CallAddCSS ==
    /\ MediaCount < MaxMedia
    /\ \E ok \in BOOLEAN : AddCSS(SrcCSS, <<>>, ok)
    /\ UNCHANGED <<pkgTitle, env, io, sched, meta>>

CallAddFont ==
    /\ MediaCount < MaxMedia
    /\ \E ok \in BOOLEAN : AddFont(SrcPNG, <<>>, ok)
    /\ UNCHANGED <<pkgTitle, env, io, sched, meta>>

CallAddImage ==
    /\ MediaCount < MaxMedia
    /\ \E ok \in BOOLEAN : AddImage(SrcPNG, <<>>, ok)
    /\ UNCHANGED <<pkgTitle, env, io, sched, meta>>

CallAddVideo ==
    /\ MediaCount < MaxMedia
    /\ \E ok \in BOOLEAN : AddVideo(SrcPNG, <<>>, ok)
    /\ UNCHANGED <<pkgTitle, env, io, sched, meta>>

CallAddSection ==
    /\ SectionCount(sections) < MaxSections
    /\ \E t \in Titles : AddSection(t, <<>>)
    /\ UNCHANGED <<pkgTitle, env, io, sched, meta>>

CallAddSubSection ==
    /\ SectionCount(sections) < MaxSections
    /\ \E q \in AllFilenames(sections) \cup {NameMissing}, t \in Titles :
           AddSubSection(q, t, <<>>)
    /\ UNCHANGED <<pkgTitle, env, io, sched, meta>>

CallSetCover ==
    /\ nCovers < MaxCovers
    /\ \E img \in CoverImagePaths, c \in CoverCSSPaths : SetCover(img, c)
    /\ UNCHANGED <<pkgTitle, env, io, sched, meta>>

CallWriteTo ==
    /\ nWrites < MaxWrites
    /\ \E c \in WriteChoices : WriteTo(c.oc, c.of, c.oi, c.ov, c.failCat, c.failAt)
    /\ UNCHANGED <<pkgTitle, env, io, sched, meta>>

Next ==
    \/ CallAddCSS
    \/ CallAddFont
    \/ CallAddImage
    \/ CallAddVideo
    \/ CallAddSection
    \/ CallAddSubSection
    \/ CallSetCover
    \/ CallWriteTo

Spec == Init /\ [][Next]_vars

(***************************************************************************)
(* SpecArchive: an Epub is built, then written once.                       *)
(***************************************************************************)
ArchiveMedia    == 2
ArchiveSections == 2

Building == nWrites = 0

ArchiveAddCSS ==
    /\ Building /\ MediaCount < ArchiveMedia
    /\ \E f \in {<<>>, mimetypeFilename} : AddCSS(SrcCSS, f, TRUE)
    /\ UNCHANGED <<pkgTitle, env, io, sched, meta>>

ArchiveAddFont ==
    /\ Building /\ MediaCount < ArchiveMedia
    /\ AddFont(SrcPNG, <<>>, TRUE)
    /\ UNCHANGED <<pkgTitle, env, io, sched, meta>>

ArchiveAddImage ==
    /\ Building /\ MediaCount < ArchiveMedia
    /\ AddImage(SrcPNG, <<>>, TRUE)
    /\ UNCHANGED <<pkgTitle, env, io, sched, meta>>

ArchiveAddVideo ==
    /\ Building /\ MediaCount < ArchiveMedia
    /\ AddVideo(SrcPNG, <<>>, TRUE)
    /\ UNCHANGED <<pkgTitle, env, io, sched, meta>>

ArchiveAddSection ==
    /\ Building /\ SectionCount(sections) < ArchiveSections
    /\ \E t \in Titles : AddSection(t, <<>>)
    /\ UNCHANGED <<pkgTitle, env, io, sched, meta>>

ArchiveAddSubSection ==
    /\ Building /\ SectionCount(sections) < ArchiveSections
    /\ \E q \in TopLevelFilenames(sections), t \in Titles : AddSubSection(q, t, <<>>)
    /\ UNCHANGED <<pkgTitle, env, io, sched, meta>>

ArchiveSetCover ==
    /\ Building /\ nCovers = 0
    /\ \E img \in CoverImagePaths, c \in CoverCSSPaths : SetCover(img, c)
    /\ UNCHANGED <<pkgTitle, env, io, sched, meta>>

ArchiveWriteTo ==
    /\ Building
    /\ \E c \in WriteChoices : WriteTo(c.oc, c.of, c.oi, c.ov, c.failCat, c.failAt)
    /\ UNCHANGED <<pkgTitle, env, io, sched, meta>>

NextArchive ==
    \/ ArchiveAddCSS
    \/ ArchiveAddFont
    \/ ArchiveAddImage
    \/ ArchiveAddVideo
    \/ ArchiveAddSection
    \/ ArchiveAddSubSection
    \/ ArchiveSetCover
    \/ ArchiveWriteTo

SpecArchive == Init /\ [][NextArchive]_vars

(***************************************************************************)
(* SpecMedia: the four Add* operations on resources, with and without a    *)
(* filename, on sources that can and cannot be retrieved.                  *)
(***************************************************************************)
MediaCSS   == 2
MediaOther == 2

OtherCount == Cardinality(DOMAIN fonts) + Cardinality(DOMAIN images)
              + Cardinality(DOMAIN videos)

CSSSources == {SrcCSS, SrcPNG, SrcDotDot, SrcLong, SrcTemplate}
CSSNames   == {NameA, SrcTemplate}
OtherNames == {<<>>, Base(SrcPNG)}

MediaAddCSS ==
    /\ Cardinality(DOMAIN css) < MediaCSS
    /\ \E src \in CSSSources, ok \in BOOLEAN : AddCSS(src, <<>>, ok)
    /\ UNCHANGED <<pkgTitle, env, io, sched, meta>>

MediaAddCSSNamed ==
    /\ Cardinality(DOMAIN css) < MediaCSS
    /\ \E f \in CSSNames, ok \in BOOLEAN : AddCSS(SrcCSS, f, ok)
    /\ UNCHANGED <<pkgTitle, env, io, sched, meta>>

MediaAddFont ==
    /\ OtherCount < MediaOther
    /\ \E f \in OtherNames, ok \in BOOLEAN : AddFont(SrcPNG, f, ok)
    /\ UNCHANGED <<pkgTitle, env, io, sched, meta>>

MediaAddImage ==
    /\ OtherCount < MediaOther
    /\ \E f \in OtherNames, ok \in BOOLEAN : AddImage(SrcPNG, f, ok)
    /\ UNCHANGED <<pkgTitle, env, io, sched, meta>>

MediaAddVideo ==
    /\ OtherCount < MediaOther
    /\ \E f \in OtherNames, ok \in BOOLEAN : AddVideo(SrcPNG, f, ok)
    /\ UNCHANGED <<pkgTitle, env, io, sched, meta>>

NextMedia ==
    \/ MediaAddCSS
    \/ MediaAddCSSNamed
    \/ MediaAddFont
    \/ MediaAddImage
    \/ MediaAddVideo

SpecMedia == Init /\ [][NextMedia]_vars

(***************************************************************************)
(* SpecSections: the section tree under AddSection, AddSubSection and      *)
(* SetCover, with and without a filename.                                  *)
(***************************************************************************)
SectionsTree   == 3
SectionsCovers == 2

SectionNames == {<<>>, sectionFileFormat(1), sectionFileFormat(2), defaultCoverXhtmlFilename}

SectionsAddSection ==
    /\ SectionCount(sections) < SectionsTree
    /\ \E f \in SectionNames : AddSection("Ch1", f)
    /\ UNCHANGED <<pkgTitle, env, io, sched, meta>>

SectionsAddSubSection ==
    /\ SectionCount(sections) < SectionsTree
    /\ \E q \in AllFilenames(sections) \cup {NameMissing, <<>>}, f \in SectionNames :
           AddSubSection(q, "Ch1", f)
    /\ UNCHANGED <<pkgTitle, env, io, sched, meta>>

SectionsAddImage ==
    /\ DOMAIN images = {}
    /\ AddImage(SrcPNG, <<>>, TRUE)
    /\ UNCHANGED <<pkgTitle, env, io, sched, meta>>

SectionsSetCover ==
    /\ nCovers < SectionsCovers
    /\ \E img \in CoverImagePaths : SetCover(img, <<>>)
    /\ UNCHANGED <<pkgTitle, env, io, sched, meta>>

NextSections ==
    \/ SectionsAddSection
    \/ SectionsAddSubSection
    \/ SectionsAddImage
    \/ SectionsSetCover

SpecSections == Init /\ [][NextSections]_vars

(***************************************************************************)
(* SpecIO: the Epub in a world that changes: a local file is created and   *)
(* removed, the server changes its answer, the destination of a write can  *)
(* not be created.                                                         *)
(***************************************************************************)
IoMedia  == 2
IoWrites == 1

SrcBelowFile == SrcCSS \o <<"/", "b">> \o cssExt            \* "d/a.css/b.css"
SrcURL       == httpScheme \o <<"h", "/", "u">> \o cssExt   \* "http://h/u.css"
SrcDataURL   == dataScheme \o <<",", "x">>                  \* "data:,x"

LocalFiles == {SrcCSS}
IoSources  == {SrcCSS, SrcBelowFile, SrcURL, SrcDataURL}

\* the source of a registered resource and the first position of an order
\* whose fetch fails in the world as it is (0: none)
firstFailure(mediaMap, order) ==
    LET bad == {i \in DOMAIN order : ~fetchMedia(env, mediaMap[order[i]]).ok}
    IN  IF bad = {} THEN 0 ELSE CHOOSE i \in bad : \A j \in bad : i <= j

\* the choice of WriteTo for the given orders: the fetch that fails is the
\* first one the world as it is makes fail
WorldChoice(oc, of, oi, ov) ==
    LET fc == firstFailure(css, oc)
        ff == firstFailure(fonts, of)
        fi == firstFailure(images, oi)
        fv == firstFailure(videos, ov)
        fail == IF fc # 0 THEN <<"css", fc>>
                ELSE IF ff # 0 THEN <<"fonts", ff>>
                ELSE IF fi # 0 THEN <<"images", fi>>
                ELSE IF fv # 0 THEN <<"videos", fv>> ELSE <<"none", 0>>
    IN  [oc |-> oc, of |-> of, oi |-> oi, ov |-> ov, failCat |-> fail[1], failAt |-> fail[2]]

WorldChoices ==
    {WorldChoice(oc, of, oi, ov) :
        oc \in Orders(DOMAIN css), of \in Orders(DOMAIN fonts),
        oi \in Orders(DOMAIN images), ov \in Orders(DOMAIN videos)}

EnvCreateFile ==
    /\ Building
    /\ \E f \in LocalFiles \ env.files : env' = [env EXCEPT !.files = @ \cup {f}]
    /\ UNCHANGED <<css, fonts, images, videos, sections, cover, manifest, spine, nav, ncx,
                   archive, call, prevCover, nWrites, nCovers, pkgTitle, io, sched, meta>>

EnvRemoveFile ==
    /\ Building
    /\ \E f \in env.files : env' = [env EXCEPT !.files = @ \ {f}]
    /\ UNCHANGED <<css, fonts, images, videos, sections, cover, manifest, spine, nav, ncx,
                   archive, call, prevCover, nWrites, nCovers, pkgTitle, io, sched, meta>>

EnvServerStatus ==
    /\ Building
    /\ \E st \in Statuses \ {env.status} : env' = [env EXCEPT !.status = st]
    /\ UNCHANGED <<css, fonts, images, videos, sections, cover, manifest, spine, nav, ncx,
                   archive, call, prevCover, nWrites, nCovers, pkgTitle, io, sched, meta>>

IoAddCSS ==
    /\ MediaCount < IoMedia
    /\ \E src \in IoSources :
         \E r \in {checkMedia(env, src)} :
           /\ AddCSS(src, <<>>, r.ok)
           /\ io' = IoOf(r.tried, <<>>, 0, 0)
    /\ UNCHANGED <<pkgTitle, env, sched, meta>>

IoAddImage ==
    /\ MediaCount < IoMedia
    /\ \E src \in IoSources :
         \E r \in {checkMedia(env, src)} :
           /\ AddImage(src, <<>>, r.ok)
           /\ io' = IoOf(r.tried, <<>>, 0, 0)
    /\ UNCHANGED <<pkgTitle, env, sched, meta>>

IoWriteTo ==
    /\ nWrites < IoWrites
    /\ \E c \in WorldChoices : WriteToWriter("WriteTo", TRUE, c, FALSE, 0, 0)
    /\ UNCHANGED <<pkgTitle, env, sched, meta>>

IoWrite ==
    /\ nWrites < IoWrites
    /\ \E createOk \in BOOLEAN, c \in WorldChoices : Write(createOk, c, FALSE, 0, 0)

NextIO ==
    \/ EnvCreateFile
    \/ EnvRemoveFile
    \/ EnvServerStatus
    \/ IoAddCSS
    \/ IoAddImage
    \/ IoWriteTo
    \/ IoWrite

SpecIO == Init /\ [][NextIO]_vars

(***************************************************************************)
(* SpecWriter: WriteTo on a destination writer that can fail.              *)
(***************************************************************************)
WriterMedia    == 1
WriterSections == 2

\* the Write calls dst gets and the two ways a call can fail: nothing
\* taken, all but one byte taken
DstFailures(c, buffered) ==
    IF c.failCat # "none" THEN {[at |-> 0, taken |-> 0]}
    ELSE LET p == teeWrites(WriteToResult(c.oc, c.of, c.oi, c.ov, c.failCat, c.failAt).archive,
                            buffered)
         IN  {[at |-> 0, taken |-> 0]}
             \cup {[at |-> k, taken |-> 0] : k \in DOMAIN p}
             \cup {[at |-> k, taken |-> p[k] - 1] : k \in DOMAIN p}

WriterAddCSS ==
    /\ Building /\ MediaCount < WriterMedia
    /\ AddCSS(SrcCSS, <<>>, TRUE)
    /\ UNCHANGED <<pkgTitle, env, io, sched, meta>>

WriterAddSection ==
    /\ Building /\ SectionCount(sections) < WriterSections
    /\ \E t \in Titles : AddSection(t, <<>>)
    /\ UNCHANGED <<pkgTitle, env, io, sched, meta>>

WriterWriteTo ==
    /\ Building
    /\ \E c \in WriteChoices, buffered \in BOOLEAN :
         \E d \in DstFailures(c, buffered) :
           WriteToWriter("WriteTo", TRUE, c, buffered, d.at, d.taken)
    /\ UNCHANGED <<pkgTitle, env, sched, meta>>

NextWriter ==
    \/ WriterAddCSS
    \/ WriterAddSection
    \/ WriterWriteTo

SpecWriter == Init /\ [][NextWriter]_vars

(***************************************************************************)
(* SpecConcurrent: goroutines call AddCSS, AddSection, SetTitle, Title and *)
(* WriteTo on one Epub.                                                    *)
(***************************************************************************)
ConcurrentCalls == 3

ConcurrentOps == {"AddCSS", "AddSection", "SetTitle", "Title", "WriteTo"}

NewTitle == "Another title"

\* the body of the call of g has run and returned ret
Returned(g, ret) ==
    [sched EXCEPT !.pc[g] = "exit",
                  !.order = [i \in DOMAIN @ |->
                                IF @[i].g = g /\ ~@[i].done
                                THEN [@[i] EXCEPT !.done = TRUE, !.ret = ret] ELSE @[i]]]

InBody(g, op) == sched.pc[g] = "body" /\ sched.op[g] = op

GoCall ==
    /\ sched.calls < ConcurrentCalls
    /\ \E g \in Goroutines, op \in ConcurrentOps :
           /\ sched.pc[g] = "idle"
           /\ sched' = [sched EXCEPT !.pc[g] = "entry", !.op[g] = op, !.calls = @ + 1]
    /\ UNCHANGED <<css, fonts, images, videos, sections, cover, manifest, spine, nav, ncx,
                   archive, call, prevCover, nWrites, nCovers, pkgTitle, env, io, meta>>

\* e.Lock()
GoLock ==
    /\ \E g \in Goroutines :
           /\ sched.pc[g] = "entry" /\ holdsMutex(sched.op[g])
           /\ sched.mutex = Unlocked
           /\ sched' = [sched EXCEPT !.mutex = g, !.pc[g] = "body", !.seen[g] = EpubFields,
                                     !.order = Append(@, [g |-> g, op |-> sched.op[g],
                                                          ret |-> <<>>, done |-> FALSE])]
    /\ UNCHANGED <<css, fonts, images, videos, sections, cover, manifest, spine, nav, ncx,
                   archive, call, prevCover, nWrites, nCovers, pkgTitle, env, io, meta>>

\* a method that does not lock
GoEnter ==
    /\ \E g \in Goroutines :
           /\ sched.pc[g] = "entry" /\ ~holdsMutex(sched.op[g])
           /\ sched' = [sched EXCEPT !.pc[g] = "body", !.seen[g] = EpubFields]
    /\ UNCHANGED <<css, fonts, images, videos, sections, cover, manifest, spine, nav, ncx,
                   archive, call, prevCover, nWrites, nCovers, pkgTitle, env, io, meta>>

GoAddCSS ==
    /\ \E g \in Goroutines :
           /\ InBody(g, "AddCSS")
           /\ AddCSS(SrcCSS, <<>>, TRUE)
           /\ sched' = Returned(g, Base(call'.ret))
    /\ UNCHANGED <<pkgTitle, env, io, meta>>

GoAddSection ==
    /\ \E g \in Goroutines :
           /\ InBody(g, "AddSection")
           /\ AddSection("Ch1", <<>>)
           /\ sched' = Returned(g, call'.ret)
    /\ UNCHANGED <<pkgTitle, env, io, meta>>

GoSetTitle ==
    /\ \E g \in Goroutines :
           /\ InBody(g, "SetTitle")
           /\ SetTitle(NewTitle)
           /\ sched' = Returned(g, <<>>)
    /\ UNCHANGED <<env, io, meta>>

GoTitle ==
    /\ \E g \in Goroutines :
           /\ InBody(g, "Title")
           /\ Title({NewTitle : h \in {k \in Goroutines \ {g} : InBody(k, "SetTitle")}})
           /\ sched' = Returned(g, <<>>)
    /\ UNCHANGED <<env, io, meta>>

GoWriteTo ==
    /\ \E g \in Goroutines :
           /\ InBody(g, "WriteTo")
           /\ \E oc \in Orders(DOMAIN css) : WriteTo(oc, <<>>, <<>>, <<>>, "none", 0)
           /\ sched' = Returned(g, <<>>)
    /\ UNCHANGED <<pkgTitle, env, io, meta>>

\* the deferred e.Unlock(), or the return of a method that did not lock
GoUnlock ==
    /\ \E g \in Goroutines :
           /\ sched.pc[g] = "exit"
           /\ sched' = [sched EXCEPT !.pc[g] = "idle",
                                     !.mutex = IF @ = g THEN Unlocked ELSE @]
    /\ UNCHANGED <<css, fonts, images, videos, sections, cover, manifest, spine, nav, ncx,
                   archive, call, prevCover, nWrites, nCovers, pkgTitle, env, io, meta>>

NextConcurrent ==
    \/ GoCall
    \/ GoLock
    \/ GoEnter
    \/ GoAddCSS
    \/ GoAddSection
    \/ GoSetTitle
    \/ GoTitle
    \/ GoWriteTo
    \/ GoUnlock

SpecConcurrent == Init /\ [][NextConcurrent]_vars

(***************************************************************************)
(* SpecIds: resources and sections under filenames that the caller gives, *)
(* written once: the ids of the manifest.                                  *)
(***************************************************************************)
IdsMedia    == 2
IdsSections == 2

NameSpaced   == <<"a", " ">> \o cssExt                     \* "a .css"
NameLeading  == <<" ", "1">> \o cssExt                     \* " 1.css"
NameDigit    == <<"1", " ", "a">> \o xhtmlExt              \* "1 a.xhtml"

IdsMediaNames   == {NameA, NameSpaced, NameLeading}
IdsSectionNames == {<<>>, NameA, NameDigit}

IdsAddCSS ==
    /\ Building /\ MediaCount < IdsMedia
    /\ \E f \in IdsMediaNames : AddCSS(SrcCSS, f, TRUE)
    /\ UNCHANGED <<pkgTitle, env, io, sched, meta>>

IdsAddFont ==
    /\ Building /\ MediaCount < IdsMedia
    /\ \E f \in IdsMediaNames : AddFont(SrcPNG, f, TRUE)
    /\ UNCHANGED <<pkgTitle, env, io, sched, meta>>

IdsAddSection ==
    /\ Building /\ SectionCount(sections) < IdsSections
    /\ \E f \in IdsSectionNames : AddSection("Ch1", f)
    /\ UNCHANGED <<pkgTitle, env, io, sched, meta>>

IdsAddSubSection ==
    /\ Building /\ SectionCount(sections) < IdsSections
    /\ \E q \in TopLevelFilenames(sections), f \in IdsSectionNames : AddSubSection(q, "Ch1", f)
    /\ UNCHANGED <<pkgTitle, env, io, sched, meta>>

IdsWriteTo ==
    /\ Building
    /\ \E c \in WriteChoices : WriteTo(c.oc, c.of, c.oi, c.ov, c.failCat, c.failAt)
    /\ UNCHANGED <<pkgTitle, env, io, sched, meta>>

NextIds ==
    \/ IdsAddCSS
    \/ IdsAddFont
    \/ IdsAddSection
    \/ IdsAddSubSection
    \/ IdsWriteTo

SpecIds == Init /\ [][NextIds]_vars

(***************************************************************************)
(* SpecStaging: WriteTo with its temporary directory in the storage        *)
(* backend and with the clock that stamps the package document.  Other     *)
(* processes create files, another Epub stages its own directory.          *)
(***************************************************************************)
StagingMedia  == 2
StagingWrites == 2
MaxClock      == 2

\* uuid.NewV4().String(): names of one length
TempDir      == <<"t", "1">>
OtherTempDir == <<"t", "2">>

\* files of other processes: a sibling of the temporary directory whose name
\* starts with its name, and a file at the path that the data URL of the
\* default cover stylesheet spells
OsFiles == {osfsPath(TempDir \o <<"x">>), Join2(Cwd, defaultCoverCSSDataURL)}

\* Use(s)
Use(s) ==
    /\ env' = [env EXCEPT !.fs = s, !.mem = IF s = MemoryFS THEN {<<"/">>} ELSE @]
    /\ UNCHANGED <<css, fonts, images, videos, sections, cover, manifest, spine, nav, ncx,
                   archive, call, prevCover, nWrites, nCovers, pkgTitle, io, sched, meta>>

\* WriteTo in the storage backend, at the time the clock shows
WriteToStaged(tempDir, c) ==
    /\ WriteTo(c.oc, c.of, c.oi, c.ov, c.failCat, c.failAt)
    /\ env' = WriteToStore(env, tempDir, c, cover.cssTempFile)
    /\ io' = [IoOf(<<>>, fetchLog(c.oc, c.of, c.oi, c.ov, c.failCat, c.failAt), 0, 0)
                EXCEPT !.staged = stagedNames(tempDir, c)]
    /\ meta' = IF c.failCat = "none" THEN setModified(meta, env.clock) ELSE meta

StagingUse ==
    /\ Building
    /\ \E s \in FSTypes \ {env.fs} : Use(s)

StagingEnvFile ==
    /\ Building
    /\ \E f \in OsFiles \ env.os : env' = [env EXCEPT !.os = @ \cup {f}]
    /\ UNCHANGED <<css, fonts, images, videos, sections, cover, manifest, spine, nav, ncx,
                   archive, call, prevCover, nWrites, nCovers, pkgTitle, io, sched, meta>>

\* another Epub stages its directory in the same backend
StagingEnvOther ==
    /\ Building
    /\ env' = storeAdd(env, {OtherTempDir, Join2(OtherTempDir, mimetypeFilename)})
    /\ env' # env
    /\ UNCHANGED <<css, fonts, images, videos, sections, cover, manifest, spine, nav, ncx,
                   archive, call, prevCover, nWrites, nCovers, pkgTitle, io, sched, meta>>

StagingTick ==
    /\ env.clock < MaxClock
    /\ env' = [env EXCEPT !.clock = @ + 1]
    /\ UNCHANGED <<css, fonts, images, videos, sections, cover, manifest, spine, nav, ncx,
                   archive, call, prevCover, nWrites, nCovers, pkgTitle, io, sched, meta>>

StagingAddCSS ==
    /\ Building /\ MediaCount < StagingMedia
    /\ AddCSS(SrcCSS, <<>>, TRUE)
    /\ UNCHANGED <<pkgTitle, env, io, sched, meta>>

StagingAddImage ==
    /\ Building /\ MediaCount < StagingMedia
    /\ AddImage(SrcPNG, <<>>, TRUE)
    /\ UNCHANGED <<pkgTitle, env, io, sched, meta>>

StagingSetCover ==
    /\ Building /\ nCovers < 1
    /\ \E img \in CoverImagePaths : SetCover(img, <<>>)
    /\ UNCHANGED <<pkgTitle, env, io, sched, meta>>

StagingWriteTo ==
    /\ nWrites < StagingWrites
    /\ \E c \in WriteChoices : WriteToStaged(TempDir, c)
    /\ UNCHANGED <<pkgTitle, sched>>

NextStaging ==
    \/ StagingUse
    \/ StagingEnvFile
    \/ StagingEnvOther
    \/ StagingTick
    \/ StagingAddCSS
    \/ StagingAddImage
    \/ StagingSetCover
    \/ StagingWriteTo

SpecStaging == Init /\ [][NextStaging]_vars

(***************************************************************************)
(* SpecToc: a tree of sections with and without titles, and a cover, under *)
(* repeated writes: the nodes of the navigation documents.                 *)
(***************************************************************************)
TocSections == 3
TocWrites   == 2

TocAddSection ==
    /\ SectionCount(sections) < TocSections
    /\ \E t \in Titles : AddSection(t, <<>>)
    /\ UNCHANGED <<pkgTitle, env, io, sched, meta>>

TocAddSubSection ==
    /\ SectionCount(sections) < TocSections
    /\ \E q \in TopLevelFilenames(sections), t \in Titles : AddSubSection(q, t, <<>>)
    /\ UNCHANGED <<pkgTitle, env, io, sched, meta>>

TocAddImage ==
    /\ DOMAIN images = {}
    /\ AddImage(SrcPNG, <<>>, TRUE)
    /\ UNCHANGED <<pkgTitle, env, io, sched, meta>>

TocSetCover ==
    /\ nCovers = 0 /\ SectionCount(sections) < TocSections
    /\ \E img \in CoverImagePaths : SetCover(img, <<>>)
    /\ UNCHANGED <<pkgTitle, env, io, sched, meta>>

TocWriteTo ==
    /\ nWrites < TocWrites
    /\ \E c \in WriteChoices : WriteTo(c.oc, c.of, c.oi, c.ov, c.failCat, c.failAt)
    /\ UNCHANGED <<pkgTitle, env, io, sched, meta>>

NextToc ==
    \/ TocAddSection
    \/ TocAddSubSection
    \/ TocAddImage
    \/ TocSetCover
    \/ TocWriteTo

SpecToc == Init /\ [][NextToc]_vars

(***************************************************************************)
(* SpecCover: SetCover, with and without a stylesheet, on an Epub whose    *)
(* stylesheets and sections carry the names that SetCover falls back on.   *)
(***************************************************************************)
CoverCSS      == 2
CoverSections == 2
CoverCalls    == 2

CoverCSSNames     == {NameA, defaultCoverCSSFilename, Sprintf(cssFileFormat, 3, cssExt)}
CoverSectionNames == {<<>>, defaultCoverXhtmlFilename}

CoverAddCSS ==
    /\ Cardinality(DOMAIN css) < CoverCSS
    /\ \E f \in CoverCSSNames : AddCSS(SrcCSS, f, TRUE)
    /\ UNCHANGED <<pkgTitle, env, io, sched, meta>>

CoverAddImage ==
    /\ DOMAIN images = {}
    /\ AddImage(SrcPNG, <<>>, TRUE)
    /\ UNCHANGED <<pkgTitle, env, io, sched, meta>>

CoverAddSection ==
    /\ SectionCount(sections) < CoverSections
    /\ \E f \in CoverSectionNames : AddSection("Ch1", f)
    /\ UNCHANGED <<pkgTitle, env, io, sched, meta>>

CoverSetCover ==
    /\ nCovers < CoverCalls
    /\ \E img \in CoverImagePaths, c \in CoverCSSPaths : SetCover(img, c)
    /\ UNCHANGED <<pkgTitle, env, io, sched, meta>>

NextCover ==
    \/ CoverAddCSS
    \/ CoverAddImage
    \/ CoverAddSection
    \/ CoverSetCover

SpecCover == Init /\ [][NextCover]_vars

(***************************************************************************)
(* What a serialization pass leaves behind, as the properties read it.     *)
(***************************************************************************)
WrittenOk == call.op = "WriteTo" /\ call.err = NoError

\* the number of manifest items with the given href
ManifestCount(href) == Cardinality({i \in DOMAIN manifest : manifest[i].href = href})

\* the number of manifest items flagged as the cover image
CoverImageItems ==
    Cardinality({i \in DOMAIN manifest : manifest[i].properties = coverImageProperties})

\* the documents the nodes of nav.xhtml, of toc.ncx point to, nested nodes included
NavHrefs ==
    {nav[i].href : i \in DOMAIN nav}
    \cup UNION {{nav[i].children[k].href : k \in DOMAIN nav[i].children} : i \in DOMAIN nav}
NcxSrcs ==
    {ncx[i].src : i \in DOMAIN ncx}
    \cup UNION {{ncx[i].children[k].src : k \in DOMAIN ncx[i].children} : i \in DOMAIN ncx}

\* the filenames of the sections and subsections whose title is empty
UntitledFilenames(secs) ==
    {secs[i].filename : i \in {j \in DOMAIN secs : secs[j].title = ""}}
    \cup UNION {{secs[i].children[k].filename :
                    k \in {m \in DOMAIN secs[i].children : secs[i].children[m].title = ""}} :
                i \in DOMAIN secs}

(***************************************************************************)
(* Properties of the serialized package, under Spec.                       *)
(***************************************************************************)

\* C2: after a successful serialization every registered resource and every
\* section and subsection appears exactly once in the package manifest.
\* Stated for the first WriteTo of the Epub, where no item of an earlier
\* pass is in the manifest.  The code violates it: writeSections skips the
\* children of a section without title.
C2_EveryEntryOnceInManifest ==
    (WrittenOk /\ nWrites = 1) =>
        /\ \A f \in DOMAIN css    : ManifestCount(Join2(CSSFolderName, f)) = 1
        /\ \A f \in DOMAIN fonts  : ManifestCount(Join2(FontFolderName, f)) = 1
        /\ \A f \in DOMAIN images : ManifestCount(Join2(ImageFolderName, f)) = 1
        /\ \A f \in DOMAIN videos : ManifestCount(Join2(VideoFolderName, f)) = 1
        /\ \A f \in AllFilenames(sections) : ManifestCount(Join2(xhtmlFolderName, f)) = 1

\* C3: if a cover is set, the first itemref of the serialized spine refers
\* to the cover section.  The code violates it on a second serialization:
\* the spine of the first one is kept and the cover is appended to it.
C3_CoverFirstInSpine ==
    (WrittenOk /\ cover.xhtmlFilename # <<>>) =>
        spine # <<>> /\ spine[1] = cover.xhtmlFilename

\* C4: neither the cover section nor a section or subsection with an empty
\* title is a node of nav.xhtml or of toc.ncx.  Stated for the first WriteTo
\* of the Epub.  The code violates it: a subsection without title, below a
\* parent with one, gets a node in both documents.
C4_NoUntitledOrCoverInNav ==
    (WrittenOk /\ nWrites = 1) =>
        \A f \in UntitledFilenames(sections) \cup ({cover.xhtmlFilename} \ {<<>>}) :
            Join2(xhtmlFolderName, f) \notin NavHrefs \cup NcxSrcs

\* C5: when SetCover was called twice, the serialized manifest has exactly
\* one item flagged as cover image, and the image, the stylesheet and the
\* section of the first cover, where the second cover does not use the same
\* name, are not in it.  Stated for the first WriteTo of the Epub.  The code
\* violates it: a second SetCover with the image of the first deletes that
\* image from the registry and no item is flagged.
C5_OneCoverAfterSecondSetCover ==
    (WrittenOk /\ nWrites = 1 /\ nCovers = 2) =>
        /\ CoverImageItems = 1
        /\ prevCover.imageFilename # cover.imageFilename =>
               ManifestCount(Join2(ImageFolderName, prevCover.imageFilename)) = 0
        /\ prevCover.cssFilename # cover.cssFilename =>
               ManifestCount(Join2(CSSFolderName, prevCover.cssFilename)) = 0
        /\ prevCover.xhtmlFilename # cover.xhtmlFilename =>
               ManifestCount(Join2(xhtmlFolderName, prevCover.xhtmlFilename)) = 0

\* the number of times x occurs in the sequence s
Occurrences(s, x) == Cardinality({i \in DOMAIN s : s[i] = x})

\* the sequences s and t hold the same elements the same number of times
SameElements(s, t) == \A x \in Range(s) \cup Range(t) : Occurrences(s, x) = Occurrences(t, x)

\* C19: the manifest, the spine and the two navigation trees are computed
\* fresh on each pass: a successful WriteTo that follows a successful
\* WriteTo, nothing being called in between, leaves the same manifest
\* items, the same itemrefs and the same navigation nodes.  The code
\* violates it: e.pkg and e.toc are never reset and the second pass appends
\* to what the first one left.
C19_SecondPassSameDocuments ==
    [][(WrittenOk /\ call'.op = "WriteTo" /\ call'.err = NoError) =>
          /\ SameElements(manifest', manifest)
          /\ spine' = spine
          /\ nav' = nav
          /\ ncx' = ncx]_vars

\* the filenames of the sections in the order of the calls that added
\* them, the subsections of a section behind it
RECURSIVE DocOrder(_)
DocOrder(secs) ==
    IF secs = <<>> THEN <<>>
    ELSE <<Head(secs).filename>>
         \o [k \in DOMAIN Head(secs).children |-> Head(secs).children[k].filename]
         \o DocOrder(Tail(secs))

\* the elements of seq are distinct and in the order doc has them in
InOrder(seq, doc) ==
    \A i, j \in DOMAIN seq :
        i < j => \E a, b \in DOMAIN doc : a < b /\ doc[a] = seq[i] /\ doc[b] = seq[j]

\* the manifest items of section documents, by filename, and the itemrefs
\* other than that of the cover
ManifestSections ==
    LET doc == DocOrder(sections)
        HrefOf  == [i \in DOMAIN manifest |-> manifest[i].href]
        IsSectionHref(h) == \E k \in DOMAIN doc : h = Join2(xhtmlFolderName, doc[k])
    IN  SelectSeq(HrefOf, IsSectionHref)
SpineWithoutCover ==
    LET NotCover(f) == f # cover.xhtmlFilename
    IN  SelectSeq(spine, NotCover)

\* C20: after a successful WriteTo the sections stand in the manifest, and
\* the sections other than the cover in the spine, in the order in which
\* AddSection added them, each subsection that was written behind its
\* parent, in the order of the AddSubSection calls, and before the next
\* top-level section.  The code violates it on a second WriteTo, through
\* C19: the spine of the first pass is kept and the sections are appended
\* to it once more.
C20_SectionsInCommitOrder ==
    LET doc == DocOrder(sections)
    IN  WrittenOk =>
            /\ InOrder(ManifestSections,
                       [k \in DOMAIN doc |-> Join2(xhtmlFolderName, doc[k])])
            /\ InOrder(SpineWithoutCover, doc)
            /\ \A f \in TopLevelFilenames(sections) :
                   /\ ManifestCount(Join2(xhtmlFolderName, f)) > 0
                   /\ f # cover.xhtmlFilename => f \in Range(spine)

(***************************************************************************)
(* Properties of the archive, under SpecArchive.                           *)
(***************************************************************************)

\* C1: the first entry of every archive WriteTo produces is named mimetype
\* and is stored without compression, whatever was added to the Epub.
C1_MimetypeFirstStored ==
    /\ WrittenOk => archive # <<>>
    /\ archive # <<>> =>
           /\ archive[1].name = mimetypeFilename
           /\ archive[1].method = Store

\* an archive of a cover, a stylesheet staged as css/mimetype and a section
C1_Witness ==
    /\ WrittenOk
    /\ cover.xhtmlFilename # <<>>
    /\ mimetypeFilename \in DOMAIN css
    /\ Len(sections) > 1
    /\ Len(archive) > 8

(***************************************************************************)
(* Properties of the resource registries, under SpecMedia.  They are about *)
(* one call: the step from the Epub before it to the Epub after it.        *)
(***************************************************************************)
MediaOps == {"AddCSS", "AddFont", "AddImage", "AddVideo"}

\* the registry, the folder and the filename template of an operation
Registry(op, c, f, i, v) ==
    CASE op = "AddCSS" -> c [] op = "AddFont" -> f [] op = "AddImage" -> i [] OTHER -> v
FolderOf(op) ==
    CASE op = "AddCSS" -> CSSFolderName [] op = "AddFont" -> FontFolderName
      [] op = "AddImage" -> ImageFolderName [] OTHER -> VideoFolderName
FormatOf(op) ==
    CASE op = "AddCSS" -> cssFileFormat [] op = "AddFont" -> fontFileFormat
      [] op = "AddImage" -> imageFileFormat [] OTHER -> videoFileFormat

\* a call that succeeded added exactly the entry n -> source, n not
\* registered before, and returned its path
AddedNew(op, before, after, c) ==
    \E n \in DOMAIN after :
        /\ n \notin DOMAIN before
        /\ after = Put(before, n, c.source)
        /\ c.ret = JoinPath(FolderOf(op), n)

\* uncheckedError: what a call on a registered filename returns when its
\* source cannot be retrieved
C6_Step(uncheckedError) ==
    call'.op \in MediaOps =>
        LET before == Registry(call'.op, css, fonts, images, videos)
            after  == Registry(call'.op, css', fonts', images', videos')
        IN  /\ call'.err = NoError => AddedNew(call'.op, before, after, call')
            /\ (call'.filename # <<>> /\ call'.filename \in DOMAIN before) =>
                   /\ call'.err = IF call'.checked THEN FilenameAlreadyUsedError
                                  ELSE uncheckedError
                   /\ after = before

NameCSS0002 == <<"c", "s", "s", "0", "0", "0", "2">>

\* an AddCSS without filename that succeeded with one stylesheet registered
C9_Case ==
    /\ call'.op = "AddCSS"
    /\ call'.filename = <<>>
    /\ call'.err = NoError
    /\ Cardinality(DOMAIN css) = 1

\* C9: AddCSS(source, "") with one stylesheet registered yields the base
\* name of the source; it yields css0002 with the lower-cased extension of
\* the source (css0002.css for a .css source) only when that base name is
\* the registered filename, is longer than 255 characters or is not a valid
\* path.  The other categories have no part in it.
C9_SecondCSSFilename ==
    [][C9_Case =>
          LET b == Base(call'.source)
          IN  call'.ret = JoinPath(CSSFolderName,
                  IF b \in DOMAIN css \/ Len(b) > MaxFilenameLen \/ ~ValidPath(b)
                  THEN NameCSS0002 \o ToLower(Ext(call'.source))
                  ELSE b)]_vars

\* C9 as the specification states it, for the sources with the extension
\* .css: the filename is css0002.css.
C9_AsStated ==
    [][(C9_Case /\ Ext(call'.source) = cssExt) =>
          call'.ret = JoinPath(CSSFolderName, NameCSS0002 \o cssExt)]_vars

\* the second stylesheet was named css0002.css while another category held
\* resources
C9_Witness ==
    /\ call.op = "AddCSS" /\ call.filename = <<>> /\ call.err = NoError
    /\ call.ret = JoinPath(CSSFolderName, NameCSS0002 \o cssExt)
    /\ Cardinality(DOMAIN css) = 2
    /\ OtherCount > 0

\* C10: an Add* without filename that registers a resource registers it
\* under the base name of the source, unless that base name is longer than
\* 255 characters, is not a valid path or is registered in the category;
\* then under the template of the category with the number of resources of
\* the category plus one and the lower-cased extension of the source.
C10_DerivedFilename ==
    [][(call'.op \in MediaOps /\ call'.filename = <<>> /\ call'.err = NoError) =>
          LET before == Registry(call'.op, css, fonts, images, videos)
              after  == Registry(call'.op, css', fonts', images', videos')
              b      == Base(call'.source)
              name   == IF Len(b) > MaxFilenameLen \/ ~ValidPath(b) \/ b \in DOMAIN before
                        THEN Sprintf(FormatOf(call'.op), Cardinality(DOMAIN before) + 1,
                                     ToLower(Ext(call'.source)))
                        ELSE b
          IN  /\ DOMAIN after = DOMAIN before \cup {name}
              /\ after[name] = call'.source
              /\ call'.ret = JoinPath(FolderOf(call'.op), name)]_vars

\* a second image of the same source was registered as image0002.png
C10_Witness ==
    /\ call.op = "AddImage" /\ call.filename = <<>> /\ call.err = NoError
    /\ call.source = SrcPNG
    /\ call.ret = JoinPath(ImageFolderName, Sprintf(imageFileFormat, 2, <<".", "p", "n", "g">>))
    /\ Base(SrcPNG) \in DOMAIN images

\* C11: the four categories are separate namespaces.  An Add* with a
\* filename that is not registered in its own category, for a source that
\* can be retrieved, registers the resource under that filename and returns
\* no error, whether or not another category holds the filename; the other
\* categories are left as they were.
C11_NamespacePerCategory ==
    [][(call'.op \in MediaOps /\ call'.filename # <<>> /\ call'.checked) =>
          LET before == Registry(call'.op, css, fonts, images, videos)
              after  == Registry(call'.op, css', fonts', images', videos')
          IN  /\ call'.filename \notin DOMAIN before =>
                     /\ call'.err = NoError
                     /\ after = Put(before, call'.filename, call'.source)
                     /\ call'.ret = JoinPath(FolderOf(call'.op), call'.filename)
              /\ \A o \in MediaOps \ {call'.op} :
                     Registry(o, css', fonts', images', videos')
                         = Registry(o, css, fonts, images, videos)]_vars

\* an image was registered under the filename of a stylesheet and of a font
C11_Witness ==
    /\ call.op = "AddImage" /\ call.err = NoError
    /\ call.filename = Base(SrcPNG)
    /\ call.filename \in DOMAIN css \cap DOMAIN fonts \cap DOMAIN images

(***************************************************************************)
(* Properties of the section tree, under SpecSections.                     *)
(***************************************************************************)
SectionOps == {"AddSection", "AddSubSection"}

\* C7: the filenames of the top-level sections and of all subsections are
\* pairwise distinct, and AddSection or AddSubSection with a filename that
\* some section or subsection has returns FilenameAlreadyUsedError and
\* leaves the tree as it was.
C7_SectionFilenamesDistinct ==
    /\ [](Cardinality(AllFilenames(sections)) = SectionCount(sections))
    /\ [][(/\ call'.op \in SectionOps
           /\ call'.filename # <<>>
           /\ call'.filename \in AllFilenames(sections)) =>
              /\ call'.err = FilenameAlreadyUsedError
              /\ sections' = sections]_vars

\* an AddSubSection named like a subsection was rejected, a cover being set
C7_Witness ==
    /\ call.op = "AddSubSection"
    /\ call.filename \in ChildFilenames(sections)
    /\ call.err = FilenameAlreadyUsedError
    /\ cover.xhtmlFilename \in TopLevelFilenames(sections)

\* the smallest index from 1 whose section%04d.xhtml no section and no
\* subsection has
FreeIndex(secs) ==
    CHOOSE i \in 1..(SectionCount(secs) + 1) :
        /\ sectionFileFormat(i) \notin AllFilenames(secs)
        /\ \A j \in 1..(i - 1) : sectionFileFormat(j) \in AllFilenames(secs)

Section0001 == sectionFilePrefix \o <<"0", "0", "0", "1">> \o xhtmlExt
Section0002 == sectionFilePrefix \o <<"0", "0", "0", "2">> \o xhtmlExt

\* C8: AddSection or AddSubSection without filename never returns
\* FilenameAlreadyUsedError; it fails only for a parent that is no top-level
\* section, and otherwise adds and returns section%04d.xhtml for the
\* smallest index from 1 that no section or subsection uses:
\* section0001.xhtml on a fresh Epub, section0002.xhtml after that.
C8_GeneratedSectionFilename ==
    [][(call'.op \in SectionOps /\ call'.filename = <<>>) =>
          /\ call'.err # FilenameAlreadyUsedError
          /\ call'.err # NoError =>
                 /\ call'.op = "AddSubSection"
                 /\ call'.parent \notin TopLevelFilenames(sections)
          /\ call'.err = NoError =>
                 /\ call'.ret = sectionFileFormat(FreeIndex(sections))
                 /\ AllFilenames(sections') = AllFilenames(sections) \cup {call'.ret}
                 /\ sections = <<>> => call'.ret = Section0001
                 /\ AllFilenames(sections) = {Section0001} => call'.ret = Section0002]_vars

\* a subsection was given section0001.xhtml below a section that was added
\* as section0002.xhtml
C8_Witness ==
    /\ call.op = "AddSubSection" /\ call.filename = <<>> /\ call.err = NoError
    /\ call.ret = Section0001
    /\ call.parent = Section0002
    /\ Section0001 \in ChildFilenames(sections)

\* C12: AddSubSection with a parentFilename that no top-level section has,
\* the filename of a subsection included, returns ParentDoesNotExistError
\* and adds nothing.  The code violates it: with the empty parentFilename
\* it adds a top-level section and returns no error.
C12_ParentMustExist ==
    [][(call'.op = "AddSubSection" /\ call'.parent \notin TopLevelFilenames(sections)) =>
          /\ call'.err = ParentDoesNotExistError
          /\ sections' = sections]_vars

(***************************************************************************)
(* Properties of the calls that meet the world, under SpecIO.              *)
(***************************************************************************)

\* the source can be reached: it is a local file, a URL the server answers
\* with a status below 400, or a data URL
Reachable(world, mediaSource) ==
    \/ Stat(world, mediaSource) = "ok"
    \/ HasPrefix(mediaSource, httpScheme) /\ world.status < StatusBadRequest
    \/ HasPrefix(mediaSource, dataScheme) /\ \E i \in DOMAIN mediaSource : mediaSource[i] = ","

\* C13: an Add* whose source can be reached neither as a local file nor as
\* a URL nor as a data URL returns FileRetrievalError, after one call of
\* each handler, and registers nothing.  The code violates it: the check of
\* a local path fails only when os.Stat says the path does not exist, so a
\* path below a regular file (ENOTDIR) passes and is registered.
C13_UnreachableSourceRejected ==
    [][(call'.op \in MediaOps /\ ~Reachable(env, call'.source)) =>
          /\ call'.err = FileRetrievalError
          /\ io'.tried = handlerNames
          /\ UNCHANGED <<css, fonts, images, videos>>]_vars

\* the registered resources, as <<folder, filename>>, whose source cannot
\* be reached
Unreachable ==
    {<<CSSFolderName, f>> : f \in {g \in DOMAIN css : ~Reachable(env, css[g])}}
    \cup {<<FontFolderName, f>> : f \in {g \in DOMAIN fonts : ~Reachable(env, fonts[g])}}
    \cup {<<ImageFolderName, f>> : f \in {g \in DOMAIN images : ~Reachable(env, images[g])}}
    \cup {<<VideoFolderName, f>> : f \in {g \in DOMAIN videos : ~Reachable(env, videos[g])}}

C15_WriteWithoutDestination ==
    [][(call'.op = "Write" /\ ~call'.checked) =>
          /\ call'.err = UnableToCreateEpubError
          /\ io' = NoIo
          /\ UNCHANGED <<css, fonts, images, videos, sections, cover, pkgTitle,
                         manifest, spine, nav, ncx, archive, nWrites>>]_vars

\* Write failed to create the destination of an Epub with two resources
C15_Witness ==
    /\ call.op = "Write" /\ call.err = UnableToCreateEpubError
    /\ MediaCount = 2
    /\ manifest = <<>> /\ nWrites = 0

(***************************************************************************)
(* Properties of the byte count, under SpecWriter.                         *)
(***************************************************************************)

\* C16: the count WriteTo returns is the number of bytes written to the
\* destination, when it returns an error too.  The code violates it: the
\* counter stands before the destination in io.MultiWriter and counts the
\* bytes of a Write that the destination refuses.
C16_CountIsBytesWritten ==
    (call.op = "WriteTo" /\ call.err # Panic) => io.n = io.written

(***************************************************************************)
(* Properties of concurrent callers, under SpecConcurrent.                 *)
(***************************************************************************)

\* C17: every method that changes the Epub, and WriteTo, holds the mutex
\* from the first to the last statement of its body, so no two of them are
\* in their bodies at the same time, and no goroutine is in a body that
\* touches a field while another is in a body that writes it.  The code
\* violates the last part: Title and the other getters do not lock, and
\* Title reads e.title while SetTitle, holding the mutex, writes it.
C17_MutexOrdersEveryAccess ==
    /\ \A g \in Goroutines :
           (sched.pc[g] \in {"body", "exit"} /\ sched.op[g] # "Title") => sched.mutex = g
    /\ \A g, h \in Goroutines :
           (g # h /\ sched.pc[g] = "body" /\ sched.pc[h] = "body") =>
               writes(sched.op[g]) \cap touches(sched.op[h]) = {}

\* the filenames that the calls of op returned, in the order in which the
\* calls took the mutex
Committed(op) ==
    LET IsOp(e) == e.done /\ e.op = op
        done == SelectSeq(sched.order, IsOp)
    IN  [i \in DOMAIN done |-> done[i].ret]

\* the names of the archive entries below a folder of the content folder
ArchiveFolder(folderName) ==
    {archive[i].name : i \in {j \in DOMAIN archive :
        HasPrefix(archive[j].name, Join2(contentFolderName, folderName) \o <<"/">>)}}

\* the hrefs of the manifest items below a folder, in the order of the manifest
ManifestFolder(folderName) ==
    LET HrefOf == [i \in DOMAIN manifest |-> manifest[i].href]
        Below(h) == HasPrefix(h, folderName \o <<"/">>)
    IN  SelectSeq(HrefOf, Below)

\* C18: WriteTo serializes the Epub as it was when WriteTo took the mutex:
\* nothing changes it while WriteTo is in its body.  The sections are those
\* of the AddSection calls whose body has run, in the order in which the
\* calls took the mutex, the stylesheets those of the AddCSS calls whose
\* body has run.  After a WriteTo each of them has its file in the archive,
\* its manifest item and, for a section, its itemref and its node in both
\* navigation documents, and the archive holds no other section or
\* stylesheet: a call that took the mutex after WriteTo has left no trace.
C18_ConsistentSnapshot ==
    /\ \A g \in Goroutines : InBody(g, "WriteTo") => sched.seen[g] = EpubFields
    /\ [i \in DOMAIN sections |-> sections[i].filename] = Committed("AddSection")
    /\ DOMAIN css = Range(Committed("AddCSS"))
    /\ WrittenOk =>
           /\ ArchiveFolder(xhtmlFolderName)
                  = {Join2(contentFolderName, Join2(xhtmlFolderName, f)) :
                         f \in Range(Committed("AddSection"))}
           /\ ArchiveFolder(CSSFolderName)
                  = {Join2(contentFolderName, Join2(CSSFolderName, f)) :
                         f \in Range(Committed("AddCSS"))}
           /\ \A f \in Range(Committed("AddSection")) :
                  /\ ManifestCount(Join2(xhtmlFolderName, f)) > 0
                  /\ f \in Range(spine)
                  /\ Join2(xhtmlFolderName, f) \in NavHrefs \cap NcxSrcs
           /\ \A f \in Range(Committed("AddCSS")) :
                  ManifestCount(Join2(CSSFolderName, f)) > 0

\* C18 as the specification states it: the resources too stand in the
\* order in which their calls took the mutex.  Stated for the first WriteTo
\* of the Epub, where no item of an earlier pass is in the manifest.
C18_AsStated ==
    /\ C18_ConsistentSnapshot
    /\ (WrittenOk /\ nWrites = 1) =>
           ManifestFolder(CSSFolderName)
               = [i \in DOMAIN Committed("AddCSS") |->
                      Join2(CSSFolderName, Committed("AddCSS")[i])]

\* WriteTo has written a section and still holds the mutex; the other
\* goroutine stands at the Lock of an AddSection
C18_Witness ==
    /\ WrittenOk
    /\ Len(sections) = 1
    /\ \E g, h \in Goroutines :
           /\ sched.pc[g] = "exit" /\ sched.op[g] = "WriteTo" /\ sched.mutex = g
           /\ sched.pc[h] = "entry" /\ sched.op[h] = "AddSection"


(***************************************************************************)
(* Properties of the manifest ids, under SpecIds.                          *)
(***************************************************************************)
\* the items of the manifest that stand for a resource or a section: all
\* but the two navigation documents
FileItems == {i \in DOMAIN manifest : manifest[i].href \notin {tocNavFilename, tocNcxFilename}}

\* an id that the format accepts: no colon, no whitespace, and a first
\* character that is no digit, punctuation or symbol
WellFormedId(id) ==
    /\ id # <<>>
    /\ \A k \in DOMAIN id : ~IsSpace(id[k]) /\ id[k] # ":"
    /\ ~(IsNumber(id[1]) \/ IsPunct(id[1]) \/ IsSymbol(id[1]))

\* C21: after a WriteTo, the id of every manifest item of a resource or of
\* a section is the normalized form of the filename of the item, has no
\* colon and no whitespace and does not start with a digit, punctuation or
\* a symbol; its href is the folder and the filename as they are on disk,
\* the name of an entry of the archive.  The code violates it: writeSections
\* hands the filename of a section to the manifest as it is, and fixXMLId
\* tests the first character before it drops the whitespace.
C21_ManifestIdsNormalized ==
    WrittenOk =>
        \A i \in FileItems :
            /\ manifest[i].id = fixXMLId(Base(manifest[i].href))
            /\ WellFormedId(manifest[i].id)
            /\ \E k \in DOMAIN archive :
                   archive[k].name = Join2(contentFolderName, manifest[i].href)

\* C28: after a WriteTo, no two items of the manifest have the same id,
\* whatever resources, sections and subsections the Add* operations
\* accepted.  The code violates it: the id of a resource is made of its
\* filename alone, and two categories accept the same filename.
C28_ManifestIdsDistinct ==
    WrittenOk =>
        \A i, j \in DOMAIN manifest : i # j => manifest[i].id # manifest[j].id


ModifiedMeta(a) == SelectSeq(a, LAMBDA m : m.property = pkgModifiedProperty)

\* C27: after a WriteTo that wrote the package document, whatever writes
\* came before it and at whatever times, the metadata holds one
\* dcterms:modified element, and it carries the time of this write.  The
\* code violates it: updateMeta replaces an element only when it is equal
\* to the new one, timestamp included, so a write at a later time appends a
\* second element.
C27_OneModifiedElement ==
    [][(nWrites' = nWrites + 1 /\ call'.err = NoError) =>
          ModifiedMeta(meta') = <<[property |-> pkgModifiedProperty, data |-> env.clock]>>]_vars


(***************************************************************************)
(* Properties of the two navigation documents, under SpecArchive.          *)
(***************************************************************************)
\* the tree of a navigation document: for each node the document it points
\* to and those its child nodes point to
NavShape ==
    [i \in DOMAIN nav |->
        [href |-> nav[i].href,
         children |-> [k \in DOMAIN nav[i].children |-> nav[i].children[k].href]]]
NcxShape ==
    [i \in DOMAIN ncx |->
        [href |-> ncx[i].src,
         children |-> [k \in DOMAIN ncx[i].children |-> ncx[i].children[k].src]]]

\* the sections that writeSections adds to the navigation: those with a
\* title that are not the cover page
InNavigation(sec) == sec.title # "" /\ sec.filename # cover.xhtmlFilename

\* C23: after a WriteTo, a subsection of a section that is in the
\* navigation is a child node of the node of its parent, in nav.xhtml and
\* in toc.ncx, and the two documents have the same tree.  The code violates
\* it: toc.addSubSection tests parentNcxIndex > len(NavMap), which never
\* holds, and appends the navPoint of the subsection to the top level.
C23_SubSectionsNested ==
    WrittenOk =>
        /\ NavShape = NcxShape
        /\ \A i \in DOMAIN sections :
               InNavigation(sections[i]) =>
                   \A k \in DOMAIN sections[i].children :
                       \A shape \in {NavShape, NcxShape} :
                           \E n \in DOMAIN shape :
                               /\ shape[n].href = Join2(xhtmlFolderName, sections[i].filename)
                               /\ Join2(xhtmlFolderName, sections[i].children[k].filename)
                                      \in Range(shape[n].children)


(***************************************************************************)
(* Properties of the navPoint ids, under SpecToc.                          *)
(***************************************************************************)
\* the navPoints and the nav items that the WriteTo of this step has added
NewNcx == SubSeq(ncx', Len(ncx) + 1, Len(ncx'))
NewNav == SubSeq(nav', Len(nav) + 1, Len(nav'))

\* the documents the nodes of a nav tree point to, a node before its children
RECURSIVE NavPreorder(_)
NavPreorder(items) ==
    IF items = <<>> THEN <<>>
    ELSE <<Head(items).href>>
         \o [k \in DOMAIN Head(items).children |-> Head(items).children[k].href]
         \o NavPreorder(Tail(items))

\* the number of the node of the top-level section at position p of secs:
\* the top-level sections before it, in the navigation or not, and the
\* subsections before it of sections that are in the navigation
RECURSIVE NodeNumber(_, _)
NodeNumber(secs, p) ==
    IF p = 1 THEN 0
    ELSE NodeNumber(secs, p - 1) + 1
         + (IF InNavigation(secs[p - 1]) THEN Len(secs[p - 1].children) ELSE 0)

\* the nodes one pass emits for secs from position p on: number and document
RECURSIVE EmittedNodes(_, _)
EmittedNodes(secs, p) ==
    IF p > Len(secs) THEN <<>>
    ELSE (IF InNavigation(secs[p])
          THEN <<[k |-> NodeNumber(secs, p), src |-> Join2(xhtmlFolderName, secs[p].filename)]>>
               \o [c \in DOMAIN secs[p].children |->
                      [k |-> NodeNumber(secs, p) + c,
                       src |-> Join2(xhtmlFolderName, secs[p].children[c].filename)]]
          ELSE <<>>)
         \o EmittedNodes(secs, p + 1)

NavPointPrefix == <<"n", "a", "v", "P", "o", "i", "n", "t", "-">>

PassWritten == nWrites' = nWrites + 1 /\ call'.err = NoError

\* C24: the navPoints that one WriteTo adds to toc.ncx have the ids
\* navPoint-<k>, k rising from node to node in the order in which the nodes
\* are emitted: k counts the top-level sections before the node, whether
\* they are in the navigation or not, and the subsections emitted before
\* it.  The nav items that the WriteTo adds to nav.xhtml point to the same
\* documents in the same order, a node before its children.
C24_NavPointNumbers ==
    [][PassWritten =>
          LET nodes == EmittedNodes(sections, 1)
          IN  /\ [i \in DOMAIN NewNcx |-> [id |-> NewNcx[i].id, src |-> NewNcx[i].src]]
                   = [i \in DOMAIN nodes |->
                         [id |-> NavPointPrefix \o Itoa(nodes[i].k), src |-> nodes[i].src]]
              /\ \A i, j \in DOMAIN nodes : i < j => nodes[i].k < nodes[j].k
              /\ NavPreorder(NewNav) = [i \in DOMAIN NewNcx |-> NewNcx[i].src]
              /\ SubSeq(ncx', 1, Len(ncx)) = ncx
              /\ SubSeq(nav', 1, Len(nav)) = nav]_vars

\* C24 as the specification states it: k rises by exactly one from each
\* emitted node to the next
C24_AsStated ==
    [][PassWritten =>
          /\ \A i \in 1..(Len(NewNcx) - 1) :
                 \E k \in 0..(2 * TocSections) :
                     /\ NewNcx[i].id = NavPointPrefix \o Itoa(k)
                     /\ NewNcx[i + 1].id = NavPointPrefix \o Itoa(k + 1)
          /\ NavPreorder(NewNav) = [i \in DOMAIN NewNcx |-> NewNcx[i].src]]_vars

\* a write has emitted two nodes around a section without a title:
\* navPoint-0 and navPoint-2
C24_Witness ==
    /\ WrittenOk
    /\ Len(sections) = 3 /\ sections[2].title = ""
    /\ [i \in DOMAIN ncx |-> ncx[i].id] = <<NavPointPrefix \o Itoa(0), NavPointPrefix \o Itoa(2)>>


(***************************************************************************)
(* Properties of the archive of one write, under SpecArchive.              *)
(***************************************************************************)
\* C25: after a WriteTo, the archive holds one document in the xhtml folder
\* for every section and for every subsection, whatever the titles.  The
\* code violates it: writeSections writes the subsections inside the branch
\* that adds their parent to the navigation, so the subsections of a
\* section without a title are not written.
C25_EverySectionWritten ==
    WrittenOk =>
        \A f \in AllFilenames(sections) :
            Cardinality({k \in DOMAIN archive :
                archive[k].name = Join2(contentFolderName, Join2(xhtmlFolderName, f))}) = 1

\* the regular files and the directories of the staging tree of a write, as
\* paths relative to its root
InContent(folder, f) == Join2(contentFolderName, Join2(folder, f))
StagingFiles ==
    {mimetypeFilename, Join2(metaInfFolderName, containerFilename),
     Join2(contentFolderName, pkgFilename), Join2(contentFolderName, tocNavFilename),
     Join2(contentFolderName, tocNcxFilename)}
    \cup {InContent(CSSFolderName, f) : f \in DOMAIN css}
    \cup {InContent(FontFolderName, f) : f \in DOMAIN fonts}
    \cup {InContent(ImageFolderName, f) : f \in DOMAIN images}
    \cup {InContent(VideoFolderName, f) : f \in DOMAIN videos}
    \cup {InContent(xhtmlFolderName, f) : f \in AllFilenames(sections)}
StagingFolders ==
    {contentFolderName, metaInfFolderName}
    \cup {Join2(contentFolderName, d) :
            d \in {CSSFolderName, FontFolderName, ImageFolderName, VideoFolderName,
                   xhtmlFolderName}}

\* C26: the archive of a WriteTo has the entry mimetype exactly once; every
\* other entry is a regular file of the staging tree, is compressed with
\* Deflate and is named by its path below the staging root, written with
\* forward slashes; no entry is named as a directory of the tree is.
C26_ArchiveEntries ==
    WrittenOk =>
        /\ Cardinality({k \in DOMAIN archive : archive[k].name = mimetypeFilename}) = 1
        /\ \A k \in DOMAIN archive :
               /\ archive[k].name \in StagingFiles
               /\ archive[k].name \notin StagingFolders
               /\ Head(archive[k].name) # "/"
               /\ archive[k].name # mimetypeFilename => archive[k].method = Deflate
               /\ \A j \in DOMAIN archive :
                      ~HasPrefix(archive[j].name, archive[k].name \o <<"/">>)

\* an archive written from the folders css, images and xhtml, with a
\* stylesheet named mimetype compressed below EPUB/css
C26_Witness ==
    /\ WrittenOk
    /\ \E k \in DOMAIN archive :
           /\ archive[k].name = InContent(CSSFolderName, mimetypeFilename)
           /\ archive[k].method = Deflate
    /\ \E k \in DOMAIN archive, f \in DOMAIN images :
           archive[k].name = InContent(ImageFolderName, f)
    /\ \E k \in DOMAIN archive, f \in TopLevelFilenames(sections) :
           archive[k].name = InContent(xhtmlFolderName, f)

(***************************************************************************)
(* Properties of SetCover, under SpecCover.                                *)
(***************************************************************************)
\* C29: SetCover never panics: when cover.css is taken, the stylesheet
\* name it builds from the number of stylesheets plus one is free, and so
\* is the generated name of the cover page, whatever AddCSS, AddSection and
\* SetCover calls came before.  The code violates it: a stylesheet can
\* carry the name that the count leads to.
C29_SetCoverNeverPanics ==
    call.op = "SetCover" => call.err # Panic

\* C30: once SetCover has been called, the image of the cover is in the
\* image registry, the stylesheet of the cover is in the stylesheet
\* registry and the cover page is the filename of exactly one top-level
\* section.  The code violates it: a second SetCover deletes the image and
\* the stylesheet of the first cover, also when they are the ones it is
\* given.
C30_CoverRefersToLiveEntries ==
    (nCovers > 0 /\ call.err # Panic) =>
        /\ cover.imageFilename \in DOMAIN images
        /\ cover.cssFilename \in DOMAIN css
        /\ Cardinality({i \in DOMAIN sections :
               sections[i].filename = cover.xhtmlFilename}) = 1

====
